---- MODULE Spec2Model ----
(***************************************************************************)
(* Feed ingestion of CringeBoard: the scheduler loop (app/scheduler.py),   *)
(* the aggregation run (app/aggregator/feed.py), the repository calls it   *)
(* makes (app/api/routes/aggregator/repository.py and auth/repository.py)  *)
(* over the tables of app/core/db.py, and the URL normalizer of            *)
(* app/aggregator/scrapers/base.py.                                        *)
(*                                                                         *)
(* Text is a sequence of one-character strings, so that the string         *)
(* functions are computed character by character.  An optional value is a  *)
(* sequence of length at most one: <<>> is None, <<x>> is x.               *)
(***************************************************************************)
EXTENDS Integers, Sequences, FiniteSets, TLC

(***************************************************************************)
(* Bounds of the model.                                                    *)
(***************************************************************************)
\* the longest sequence of articles one scrape() yields
MaxLen == 2

\* the most items or entries in a feed, the most articles in a payload
MaxEntries == 2

\* the most www. labels in front of a host
MaxWww == 2

\* the most lines of a description
MaxLines == 3

\* the most changes other actors make to the store between the runs
MaxExternal == 1

(***************************************************************************)
(* Text helpers: str.strip, str.rstrip, str.lower, str.find,               *)
(* str.startswith.                                                         *)
(***************************************************************************)
None == <<>>

Some(x) == <<x>>

UpperLetters ==
  <<"A","B","C","D","E","F","G","H","I","J","K","L","M",
    "N","O","P","Q","R","S","T","U","V","W","X","Y","Z">>

LowerLetters ==
  <<"a","b","c","d","e","f","g","h","i","j","k","l","m",
    "n","o","p","q","r","s","t","u","v","w","x","y","z">>

Digits == {"0","1","2","3","4","5","6","7","8","9"}

Range(s) == {s[i] : i \in DOMAIN s}

Whitespace == {" ", "\t", "\n", "\r"}

SetMin(S) == CHOOSE x \in S : \A y \in S : x <= y

SetMax(S) == CHOOSE x \in S : \A y \in S : y <= x

LowerChar(c) ==
  IF c \in Range(UpperLetters)
  THEN LowerLetters[CHOOSE i \in DOMAIN UpperLetters : UpperLetters[i] = c]
  ELSE c

Lower(s) == [i \in DOMAIN s |-> LowerChar(s[i])]

Strip(s) ==
  LET keep == {i \in DOMAIN s : s[i] \notin Whitespace}
  IN  IF keep = {} THEN <<>> ELSE SubSeq(s, SetMin(keep), SetMax(keep))

RStrip(s, chars) ==
  LET keep == {i \in DOMAIN s : s[i] \notin chars}
  IN  IF keep = {} THEN <<>> ELSE SubSeq(s, 1, SetMax(keep))

\* the least index >= from of a character of chars in s, 0 when there is none
Find(s, chars, from) ==
  LET hits == {i \in DOMAIN s : i >= from /\ s[i] \in chars}
  IN  IF hits = {} THEN 0 ELSE SetMin(hits)

StartsWith(s, prefix) ==
  /\ Len(s) >= Len(prefix)
  /\ SubSeq(s, 1, Len(prefix)) = prefix

(***************************************************************************)
(* urllib.parse.urlsplit, as BaseRSSScraper._normalize_url uses it.        *)
(***************************************************************************)
SchemeChars ==
  Range(UpperLetters) \cup Range(LowerLetters) \cup Digits \cup {"+", "-", "."}

UnsafeUrlChars == {"\t", "\n", "\r"}

\* the scheme of url, lower case, and what follows its colon
SplitScheme(url) ==
  LET colon  == Find(url, {":"}, 1)
      hasSch == /\ colon > 1
                /\ url[1] \in Range(UpperLetters) \cup Range(LowerLetters)
                /\ \A i \in 1..(colon - 1) : url[i] \in SchemeChars
  IN  IF hasSch THEN <<Lower(SubSeq(url, 1, colon - 1)), SubSeq(url, colon + 1, Len(url))>>
      ELSE <<<<>>, url>>

\* the netloc after a leading // and what follows it
SplitNetloc(url) ==
  LET d     == Find(url, {"/", "?", "#"}, 3)
      delim == IF d = 0 THEN Len(url) + 1 ELSE d
  IN  IF Len(url) >= 2 /\ url[1] = "/" /\ url[2] = "/"
      THEN <<SubSeq(url, 3, delim - 1), SubSeq(url, delim, Len(url))>>
      ELSE <<<<>>, url>>

\* s before and after the first sep, s and "" without one
SplitOnce(s, sep) ==
  LET at == Find(s, {sep}, 1)
  IN  IF at = 0 THEN <<s, <<>>>>
      ELSE <<SubSeq(s, 1, at - 1), SubSeq(s, at + 1, Len(s))>>

urlsplit(value) ==
  LET schemed  == SplitScheme(SelectSeq(value, LAMBDA c : c \notin UnsafeUrlChars))
      located  == SplitNetloc(schemed[2])
      anchored == SplitOnce(located[2], "#")
      queried  == SplitOnce(anchored[1], "?")
  IN  [scheme |-> schemed[1], netloc |-> located[1], path |-> queried[1],
       query |-> queried[2], fragment |-> anchored[2],
       \* urlsplit raises ValueError on an unbalanced bracket in the netloc
       error |-> ("[" \in Range(located[1])) # ("]" \in Range(located[1]))]

\* netloc without a leading www.
StripWww(netloc) ==
  IF StartsWith(netloc, <<"w","w","w",".">>) THEN SubSeq(netloc, 5, Len(netloc))
  ELSE netloc

\* prefix and part, nothing for an empty part
Prefixed(prefix, part) == IF part # <<>> THEN <<prefix>> \o part ELSE <<>>

_normalize_url(value) ==
  LET candidate == Strip(value)
      parsed    == urlsplit(candidate)
      netloc    == StripWww(Lower(parsed.netloc))
  IN  IF candidate = <<>> THEN <<>>
      ELSE IF parsed.error THEN RStrip(candidate, {"/"})
      ELSE IF netloc = <<>> THEN RStrip(candidate, {"/"})
      ELSE RStrip(Lower(parsed.scheme) \o <<":","/","/">> \o netloc
                    \o RStrip(parsed.path, {"/"}) \o Prefixed("?", parsed.query)
                    \o Prefixed("#", parsed.fragment), {"/"})

(***************************************************************************)
(* More of str: literals as text, str.upper, lstrip, endswith, the in      *)
(* operator, split, join, replace, capitalize, splitlines.                 *)
(***************************************************************************)
\* the text of a string literal
Text(str) == [i \in 1..Len(str) |-> SubSeq(str, i, i)]

UpperChar(c) ==
  IF c \in Range(LowerLetters)
  THEN UpperLetters[CHOOSE i \in DOMAIN LowerLetters : LowerLetters[i] = c]
  ELSE c

Upper(s) == [i \in DOMAIN s |-> UpperChar(s[i])]

LStrip(s, chars) ==
  LET keep == {i \in DOMAIN s : s[i] \notin chars}
  IN  IF keep = {} THEN <<>> ELSE SubSeq(s, SetMin(keep), Len(s))

\* s.strip(chars)
StripChars(s, chars) == LStrip(RStrip(s, chars), chars)

EndsWith(s, suffix) ==
  /\ Len(s) >= Len(suffix)
  /\ SubSeq(s, Len(s) - Len(suffix) + 1, Len(s)) = suffix

\* sub occurs in s at index i
MatchesAt(s, sub, i) ==
  /\ i + Len(sub) - 1 <= Len(s)
  /\ SubSeq(s, i, i + Len(sub) - 1) = sub

\* sub in s
Contains(s, sub) == \E i \in 1..(Len(s) + 1) : MatchesAt(s, sub, i)

\* how many characters of chars follow one another in s from index from on
Span(s, from, chars) ==
  LET stop == {i \in from..Len(s) : s[i] \notin chars}
  IN  IF stop = {} THEN Len(s) - from + 1 ELSE SetMin(stop) - from

\* s.split(sep) for a separator of one character
RECURSIVE Split(_, _)
Split(s, sep) ==
  LET at == Find(s, {sep}, 1)
  IN  IF at = 0 THEN <<s>>
      ELSE <<SubSeq(s, 1, at - 1)>> \o Split(SubSeq(s, at + 1, Len(s)), sep)

\* s.split(): the words between runs of whitespace
RECURSIVE SplitWords(_)
SplitWords(s) ==
  LET rest == LStrip(s, Whitespace)
      at   == Find(rest, Whitespace, 1)
  IN  IF rest = <<>> THEN <<>>
      ELSE IF at = 0 THEN <<rest>>
      ELSE <<SubSeq(rest, 1, at - 1)>> \o SplitWords(SubSeq(rest, at + 1, Len(rest)))

\* sep.join(parts)
RECURSIVE Join(_, _)
Join(parts, sep) ==
  IF parts = <<>> THEN <<>>
  ELSE IF Len(parts) = 1 THEN parts[1]
  ELSE parts[1] \o sep \o Join(Tail(parts), sep)

\* the concatenation of a sequence of sequences
RECURSIVE Concat(_)
Concat(seqs) == IF seqs = <<>> THEN <<>> ELSE seqs[1] \o Concat(Tail(seqs))

\* s.replace(from, to) for single characters
Replace(s, from, to) == [i \in DOMAIN s |-> IF s[i] = from THEN to ELSE s[i]]

\* word.capitalize(): the first character upper case, the others lower case
Capitalize(word) ==
  IF word = <<>> THEN <<>> ELSE <<UpperChar(word[1])>> \o Lower(Tail(word))

LineBreaks == {"\n", "\r"}

\* s.splitlines(): "\r\n" is one line break, a final line break ends no line
RECURSIVE SplitLines(_)
SplitLines(s) ==
  LET at   == Find(s, LineBreaks, 1)
      skip == IF at # 0 /\ at < Len(s) /\ s[at] = "\r" /\ s[at + 1] = "\n"
              THEN 2 ELSE 1
  IN  IF s = <<>> THEN <<>>
      ELSE IF at = 0 THEN <<s>>
      ELSE <<SubSeq(s, 1, at - 1)>> \o SplitLines(SubSeq(s, at + skip, Len(s)))

(***************************************************************************)
(* BaseRSSScraper.clean_html: html.unescape and three re.sub calls.        *)
(***************************************************************************)
\* the character references html.unescape resolves here; the texts of the
\* model carry an ampersand only as the start of one of them
HtmlEntities ==
  { [name |-> Text("&amp;"), char |-> "&"],
    [name |-> Text("&lt;"), char |-> "<"],
    [name |-> Text("&gt;"), char |-> ">"],
    [name |-> Text("&quot;"), char |-> "\""] }

\* the entities that stand in s at index i
EntitiesAt(s, i) == {e \in HtmlEntities : MatchesAt(s, e.name, i)}

RECURSIVE unescape(_)
unescape(s) ==
  LET hits  == {i \in DOMAIN s : EntitiesAt(s, i) # {}}
      first == SetMin(hits)
      hit   == CHOOSE e \in EntitiesAt(s, first) : TRUE
  IN  IF hits = {} THEN s
      ELSE SubSeq(s, 1, first - 1) \o <<hit.char>>
             \o unescape(SubSeq(s, first + Len(hit.name), Len(s)))

\* the length of the match of r"<br\\s*/?>" at the head of s, 0 without one:
\* in the raw string the two backslashes are the regex for one backslash, and
\* s* is then any number of the letter s
BrMatch(s) ==
  LET after_s == 5 + Span(s, 5, {"s"})
      after_slash == IF after_s <= Len(s) /\ s[after_s] = "/"
                     THEN after_s + 1 ELSE after_s
  IN  IF StartsWith(s, <<"<", "b", "r", "\\">>)
         /\ after_slash <= Len(s) /\ s[after_slash] = ">"
      THEN after_slash ELSE 0

\* the length of the match of r"</p>\s*<p>" at the head of s
ParagraphMatch(s) ==
  LET open == 5 + Span(s, 5, Whitespace)
  IN  IF StartsWith(s, Text("</p>")) /\ MatchesAt(s, Text("<p>"), open)
      THEN open + 2 ELSE 0

\* the length of the match of r"<[^>]+>" at the head of s
TagMatch(s) ==
  LET close == Find(s, {">"}, 2)
  IN  IF s # <<>> /\ s[1] = "<" /\ close >= 3 THEN close ELSE 0

MatchLength(pattern, s) ==
  CASE pattern = "br" -> BrMatch(s)
    [] pattern = "p" -> ParagraphMatch(s)
    [] pattern = "tag" -> TagMatch(s)

\* re.sub(pattern, repl, s): the matches from left to right, none overlapping
RECURSIVE sub(_, _, _)
sub(pattern, repl, s) ==
  LET hits  == {i \in DOMAIN s : MatchLength(pattern, SubSeq(s, i, Len(s))) > 0}
      first == SetMin(hits)
      after == first + MatchLength(pattern, SubSeq(s, first, Len(s)))
  IN  IF hits = {} THEN s
      ELSE SubSeq(s, 1, first - 1) \o repl \o sub(pattern, repl, SubSeq(s, after, Len(s)))

clean_html(a_raw) ==
  Strip(sub("tag", <<>>, sub("p", <<"\n">>, sub("br", <<"\n">>, unescape(a_raw)))))

(***************************************************************************)
(* BaseRSSScraper: the summary and the title of an entry.                  *)
(***************************************************************************)
_looks_like_url(value) ==
  LET candidate == Lower(Strip(value))
  IN  StartsWith(candidate, Text("http://")) \/ StartsWith(candidate, Text("https://"))

\* the URLs compared as they are written
_urls_match_exact(first, second) == first = second

_urls_match(first, second) == _normalize_url(first) = _normalize_url(second)

metadata_markers ==
  <<Text("Article URL:"), Text("Comments URL:"), Text("Points:"), Text("# Comments:")>>

\* the detector without its second rule, the markers anywhere in the text
_looks_like_metadata_block_lines(summary) ==
  LET split    == SplitLines(summary)
      stripped == [i \in DOMAIN split |-> Strip(split[i])]
      lines    == SelectSeq(stripped, LAMBDA line : line # <<>>)
      starting == {i \in DOMAIN lines :
                     \E m \in DOMAIN metadata_markers :
                       StartsWith(lines[i], metadata_markers[m])}
  IN  Len(lines) >= 3 /\ Cardinality(starting) >= 3

_looks_like_metadata_block(summary) ==
  LET split     == SplitLines(summary)
      stripped  == [i \in DOMAIN split |-> Strip(split[i])]
      lines     == SelectSeq(stripped, LAMBDA line : line # <<>>)
      starting  == {i \in DOMAIN lines :
                      \E m \in DOMAIN metadata_markers :
                        StartsWith(lines[i], metadata_markers[m])}
      flattened == Lower(Replace(summary, "\n", " "))
      contained == {m \in DOMAIN metadata_markers :
                      Contains(flattened, Lower(metadata_markers[m]))}
  IN  \/ Len(lines) >= 3 /\ Cardinality(starting) >= 3
      \/ Cardinality(contained) >= 3

\* raw_description is None or Some(text)
_build_summary(raw_description, link) ==
  LET summary == clean_html(raw_description[1])
  IN  IF raw_description = None THEN None
      ELSE IF raw_description[1] = <<>> THEN None
      ELSE IF summary = <<>> THEN None
      ELSE IF _looks_like_url(summary) /\ _urls_match(summary, link) THEN None
      ELSE IF _looks_like_metadata_block(summary) THEN None
      ELSE Some(summary)

\* " ".join(segment.replace("-", " ").replace("_", " ").split()) or segment
CleanedSegment(segment) ==
  LET cleaned == Join(SplitWords(Replace(Replace(segment, "-", " "), "_", " ")), <<" ">>)
  IN  IF cleaned # <<>> THEN cleaned ELSE segment

\* " ".join(chunk.capitalize() for chunk in segment.split()) or segment
CapitalizedSegment(segment) ==
  LET chunks      == SplitWords(segment)
      capitalized == Join([i \in DOMAIN chunks |-> Capitalize(chunks[i])], <<" ">>)
  IN  IF capitalized # <<>> THEN capitalized ELSE segment

\* the last of the non-empty segments of path, "" without one
LastSegment(path) ==
  LET path_segments == SelectSeq(Split(path, "/"), LAMBDA segment : segment # <<>>)
  IN  IF path_segments = <<>> THEN <<>> ELSE path_segments[Len(path_segments)]

\* what _derive_title_from_link makes of a link that urlsplit has split
TitleOfParts(path, netloc, last_segment) ==
  LET readable_segment == CapitalizedSegment(CleanedSegment(last_segment))
      stripped_path    == StripChars(path, {"/"})
      fallback == IF stripped_path # <<>> THEN stripped_path ELSE netloc
  IN  IF last_segment # <<>>
      THEN IF netloc # <<>>
           THEN Some(Strip(readable_segment \o Text(" (") \o netloc \o Text(")")))
           ELSE IF readable_segment # <<>> THEN Some(readable_segment) ELSE None
      ELSE IF fallback # <<>> THEN Some(fallback) ELSE None

_derive_title_from_link(link) ==
  LET parsed == urlsplit(Strip(link))
  IN  IF parsed.error THEN None
      ELSE TitleOfParts(parsed.path, StripWww(parsed.netloc), LastSegment(parsed.path))

\* the title for a trimmed raw title and what the link gives (None or "" for
\* no title)
ChosenTitle(title, title_from_link) ==
  LET derived == title_from_link # None /\ title_from_link[1] # <<>>
  IN  IF title # <<>>
      THEN IF ~_looks_like_url(title) THEN title
           ELSE IF derived THEN title_from_link[1]
           ELSE title
      ELSE IF derived THEN title_from_link[1] ELSE Text("Untitled")

\* the title without the link: no title is derived
_prepare_title_raw(raw_title, link) ==
  ChosenTitle(IF raw_title = None THEN <<>> ELSE Strip(raw_title[1]), None)

\* raw_title is None or Some(text)
_prepare_title(raw_title, link) ==
  ChosenTitle(IF raw_title = None THEN <<>> ELSE Strip(raw_title[1]),
              _derive_title_from_link(link))

(***************************************************************************)
(* BaseRSSScraper.parse_feed.  A feed is what ET.fromstring makes of the   *)
(* body, as far as parse_feed reads it: whether the body was well-formed,  *)
(* the item elements and the entry elements in document order.  An RSS     *)
(* item is the text of its title, link, description and summary children   *)
(* (None for a child that is missing); an Atom entry has title, content    *)
(* and summary the same way, and its link children with their href and rel *)
(* attributes.                                                             *)
(***************************************************************************)
ScrapedArticle(title, url, summary) ==
  [title |-> title, url |-> url, summary |-> summary]

RssItem(title, link, description, summary) ==
  [title |-> title, link |-> link, description |-> description, summary |-> summary]

AtomLink(href, rel) == [href |-> href, rel |-> rel]

AtomEntry(title, links, content, summary) ==
  [title |-> title, links |-> links, content |-> content, summary |-> summary]

RssFeed(items) == [well_formed |-> TRUE, items |-> items, entries |-> <<>>]

AtomFeed(entries) == [well_formed |-> TRUE, items |-> <<>>, entries |-> entries]

MalformedFeed == [well_formed |-> FALSE, items |-> <<>>, entries |-> <<>>]

\* what a call gives back: it returns a value or it raises
Returned(value) == [raised |-> FALSE, value |-> value]

Raised == [raised |-> TRUE, value |-> <<>>]

get_text(a_item, a_tag) ==
  LET text == Strip(a_item[a_tag][1])
  IN  IF a_item[a_tag] = None THEN None
      ELSE IF text # <<>> THEN Some(text) ELSE None

\* the first link with an href, whatever its rel
_extract_atom_link_first(entry) ==
  LET candidates == SelectSeq(entry.links,
                              LAMBDA element : element.href # None /\ element.href[1] # <<>>)
  IN  IF candidates # <<>> THEN candidates[1].href ELSE None

\* the first link with an href whose rel is alternate (the default of rel),
\* else the first link with an href
_extract_atom_link(entry) ==
  LET candidates == SelectSeq(entry.links,
                              LAMBDA element : element.href # None /\ element.href[1] # <<>>)
      alternates == SelectSeq(candidates,
                              LAMBDA element : \/ element.rel = None
                                               \/ element.rel = Some(Text("alternate")))
  IN  IF alternates # <<>> THEN alternates[1].href
      ELSE IF candidates # <<>> THEN candidates[1].href
      ELSE None

\* the body of parse_feed's loop: the articles one item yields, none or one
parse_item(atom_feed, item) ==
  LET found == IF atom_feed THEN _extract_atom_link(item) ELSE get_text(item, "link")
      link  == Strip(found[1])
      first == IF atom_feed THEN get_text(item, "content")
               ELSE get_text(item, "description")
      description == IF first # None THEN first ELSE get_text(item, "summary")
  IN  IF found = None THEN <<>>
      ELSE <<ScrapedArticle(_prepare_title(get_text(item, "title"), link), link,
                            _build_summary(description, link))>>

parse_feed(a_data) ==
  LET atom_feed == a_data.items = <<>>
      items     == IF atom_feed THEN a_data.entries ELSE a_data.items
  IN  IF ~a_data.well_formed THEN Raised
      ELSE Returned(Concat([i \in DOMAIN items |-> parse_item(atom_feed, items[i])]))

(***************************************************************************)
(* NewsAPIScraper.scrape.  A response is the HTTP status and the articles  *)
(* of the JSON payload (None without the key); an article of the payload   *)
(* has url, title, description and content, each None or a text.           *)
(***************************************************************************)
NewsItem(url, title, description, content) ==
  [url |-> url, title |-> title, description |-> description, content |-> content]

NewsResponse(ok, payload_articles) == [ok |-> ok, articles |-> payload_articles]

\* value or ""
OrEmpty(value) == IF value = None THEN <<>> ELSE value[1]

\* the articles one item of the payload yields, none or one
news_item(item) ==
  LET url   == Strip(OrEmpty(item.url))
      title == Strip(OrEmpty(item.title))
      text  == Strip(IF OrEmpty(item.description) # <<>>
                     THEN item.description[1] ELSE OrEmpty(item.content))
  IN  IF url = <<>> THEN <<>>
      ELSE <<ScrapedArticle(IF title # <<>> THEN title ELSE Text("Untitled"), url,
                            IF text # <<>> THEN Some(text) ELSE None)>>

\* a_query is the scraper's _query; with_query and without_query are what
\* the endpoint answers to the request with and without the q parameter
NewsAPIScraper_scrape(a_query, with_query, without_query) ==
  LET first    == OrEmpty(with_query.articles)
      retry    == first = <<>> /\ a_query # None
      articles == IF retry THEN OrEmpty(without_query.articles) ELSE first
  IN  IF ~with_query.ok THEN Raised
      ELSE IF retry /\ ~without_query.ok THEN Raised
      ELSE Returned(Concat([i \in DOMAIN articles |-> news_item(articles[i])]))

\* (value or "").strip() or None
StrippedOrNone(value) ==
  IF Strip(OrEmpty(value)) # <<>> THEN Some(Strip(OrEmpty(value))) ELSE None

\* s.title(): a letter after a character that is no letter in upper case,
\* every other letter in lower case
TitleCase(s) ==
  [i \in DOMAIN s |->
     IF i = 1 \/ s[i - 1] \notin Range(UpperLetters) \cup Range(LowerLetters)
     THEN UpperChar(s[i]) ELSE LowerChar(s[i])]

\* the parts of the title: the category and the query, else the country
TitleParts(a_query, a_country, a_category) ==
  IF a_category = None /\ a_query = None
  THEN IF a_country # None THEN <<Upper(a_country[1])>> ELSE <<>>
  ELSE (IF a_category # None THEN <<TitleCase(a_category[1])>> ELSE <<>>)
         \o (IF a_query # None THEN <<Text("\"") \o a_query[1] \o Text("\"")>> ELSE <<>>)

Labelled(parts) ==
  IF parts # <<>> THEN Join(parts, Text(" / ")) ELSE Text("Top headlines")

_build_title(a_query, a_country, a_category) ==
  Text("NewsAPI (") \o Labelled(TitleParts(a_query, a_country, a_category)) \o Text(")")

Detail(name, value) ==
  IF value # None THEN <<Text(name) \o Text("=") \o value[1]>> ELSE <<>>

Detailed(details) ==
  IF details # <<>> THEN Text("NewsAPI feed (") \o Join(details, Text(", ")) \o Text(")")
  ELSE Text("NewsAPI top headlines feed")

_build_description(a_query, a_country, a_category) ==
  Detailed(Detail("country", a_country) \o Detail("category", a_category)
             \o Detail("query", a_query))

\* max(1, min(page_size, 100))
ClampedPageSize(page_size) ==
  IF page_size > 100 THEN 100 ELSE IF page_size < 1 THEN 1 ELSE page_size

\* the scraper with its trimmed filters
NewsScraper(a_api_key, a_query, a_country, a_category, a_page_size) ==
  [_api_key |-> a_api_key, _query |-> a_query, _country |-> a_country,
   _category |-> a_category, _page_size |-> a_page_size,
   newspaper_title |-> _build_title(a_query, a_country, a_category),
   newspaper_description |-> Some(_build_description(a_query, a_country, a_category))]

\* NewsAPIScraper(api_key, query, country, category, page_size): `not api_key`
\* holds of None and of the empty text
NewsAPIScraper(api_key, query, country, category, page_size) ==
  IF api_key = None \/ api_key[1] = <<>> THEN Raised
  ELSE Returned(NewsScraper(Strip(api_key[1]), StrippedOrNone(query),
                            StrippedOrNone(country), StrippedOrNone(category),
                            ClampedPageSize(page_size)))

\* the params of fetch(include_query); a key that is not sent is None
fetch_params(scraper, include_query) ==
  [apiKey |-> scraper._api_key, pageSize |-> scraper._page_size,
   q |-> IF include_query THEN scraper._query ELSE None,
   country |-> scraper._country, category |-> scraper._category]

\* the requests with the retry a copy of the first request
NewsAPIScraper_requests_repeated(scraper, with_query) ==
  IF with_query.ok /\ OrEmpty(with_query.articles) = <<>> /\ scraper._query # None
  THEN <<fetch_params(scraper, TRUE), fetch_params(scraper, TRUE)>>
  ELSE <<fetch_params(scraper, TRUE)>>

\* the GET requests of one scrape(), in the order they are sent
NewsAPIScraper_requests(scraper, with_query) ==
  IF with_query.ok /\ OrEmpty(with_query.articles) = <<>> /\ scraper._query # None
  THEN <<fetch_params(scraper, TRUE), fetch_params(scraper, FALSE)>>
  ELSE <<fetch_params(scraper, TRUE)>>

(***************************************************************************)
(* The Flipboard scrapers (app/aggregator/scrapers/flipboard.py), the      *)
(* settings and scheduler.build_scrapers.                                  *)
(***************************************************************************)
BaseRSSScraper(a_feed_url, a_newspaper_title, a_newspaper_description) ==
  [feed_url |-> a_feed_url, newspaper_title |-> a_newspaper_title,
   newspaper_description |-> a_newspaper_description]

FlipboardPrefixes ==
  <<Text("https://flipboard.com/"), Text("http://flipboard.com/"), Text("flipboard.com/")>>

\* slug without the first of the prefixes that it starts with in lower case
WithoutPrefix(slug) ==
  LET matching == {i \in DOMAIN FlipboardPrefixes :
                     StartsWith(Lower(slug), FlipboardPrefixes[i])}
  IN  IF matching = {} THEN slug
      ELSE SubSeq(slug, Len(FlipboardPrefixes[SetMin(matching)]) + 1, Len(slug))

\* the subpath kept for an account as well
WithoutSubpath_kept(slug, allow_subpath) == slug

\* slug.split("/", 1)[0] for an account
WithoutSubpath(slug, allow_subpath) ==
  IF ~allow_subpath /\ "/" \in Range(slug) THEN Split(slug, "/")[1] ELSE slug

WithoutRss(slug) ==
  IF EndsWith(slug, Text(".rss")) THEN SubSeq(slug, 1, Len(slug) - 4) ELSE slug

_normalize_identifier(raw_identifier, allow_subpath) ==
  LET trimmed == Strip(raw_identifier)
      handle  == LStrip(Split(Split(WithoutPrefix(trimmed), "?")[1], "#")[1], {"@", "/"})
      slug    == StripChars(WithoutRss(WithoutSubpath(handle, allow_subpath)), {"/"})
  IN  IF trimmed = <<>> THEN Raised
      ELSE IF slug = <<>> THEN Raised
      ELSE Returned(slug)

FlipboardMagazineScraper(a_magazine_identifier) ==
  LET slug == _normalize_identifier(a_magazine_identifier, TRUE)
  IN  IF slug.raised THEN Raised
      ELSE Returned(BaseRSSScraper(
             Text("https://flipboard.com/@") \o slug.value \o Text(".rss"),
             Text("Flipboard / @") \o slug.value,
             Some(Text("Flipboard magazine feed for @") \o slug.value)))

FlipboardAccountScraper(a_account_identifier) ==
  LET username == _normalize_identifier(a_account_identifier, FALSE)
  IN  IF username.raised THEN Raised
      ELSE Returned(BaseRSSScraper(
             Text("https://flipboard.com/@") \o username.value \o Text(".rss"),
             Text("Flipboard Account / @") \o username.value,
             Some(Text("Latest items curated by @") \o username.value
                    \o Text(" on Flipboard."))))

\* config._parse_origins: the trimmed, non-empty entries of a comma list
_parse_origins(raw_value) ==
  LET entries == Split(raw_value, ",")
  IN  SelectSeq([i \in DOMAIN entries |-> Strip(entries[i])],
                LAMBDA origin : origin # <<>>)

\* os.getenv(name, default) on an environment that maps a name to None or
\* Some(text)
getenv(environ, name, default) ==
  IF environ[name] = None THEN default ELSE environ[name][1]

\* config.get_settings, the settings build_scrapers reads
get_settings(environ) ==
  [flipboard_magazines |->
     _parse_origins(getenv(environ, "FLIPBOARD_MAGAZINES", Text("tech/tech"))),
   flipboard_accounts |->
     _parse_origins(getenv(environ, "FLIPBOARD_ACCOUNTS", <<>>)),
   rss_feeds |->
     _parse_origins(getenv(environ, "RSS_FEEDS",
       Text("https://hnrss.org/frontpage,https://www.wired.com/feed/rss")))]

\* the scrapers build_scrapers makes of one entry of rss_feeds, none or one
rss_scraper(feed) ==
  LET pieces == Split(feed, "|")
      parts  == SelectSeq([i \in DOMAIN pieces |-> Strip(pieces[i])],
                          LAMBDA part : part # <<>>)
  IN  IF parts = <<>> THEN <<>>
      ELSE IF Len(parts) = 1 THEN <<BaseRSSScraper(parts[1], parts[1], None)>>
      ELSE IF Len(parts) = 2 THEN <<BaseRSSScraper(parts[2], parts[1], None)>>
      ELSE <<BaseRSSScraper(parts[2], parts[1], Some(parts[3]))>>

\* build_scrapers with a try around each magazine: one that raises is left out
build_scrapers_lenient(a_settings) ==
  LET feeds     == a_settings.rss_feeds
      magazines == SelectSeq(a_settings.flipboard_magazines,
                             LAMBDA magazine : ~FlipboardMagazineScraper(magazine).raised)
  IN  Returned(Concat([i \in DOMAIN feeds |-> rss_scraper(feeds[i])])
                 \o [i \in DOMAIN magazines |->
                       FlipboardMagazineScraper(magazines[i]).value])

build_scrapers(a_settings) ==
  LET feeds     == a_settings.rss_feeds
      magazines == SelectSeq(a_settings.flipboard_magazines,
                             LAMBDA magazine : magazine # <<>>)
      built     == [i \in DOMAIN magazines |-> FlipboardMagazineScraper(magazines[i])]
  IN  IF \E i \in DOMAIN built : built[i].raised THEN Raised
      ELSE Returned(Concat([i \in DOMAIN feeds |-> rss_scraper(feeds[i])])
                      \o [i \in DOMAIN built |-> built[i].value])

(***************************************************************************)
(* Configuration (app/core/config.py) and the password hasher.             *)
(***************************************************************************)
aggregator_user_email == "aggregator@cringeboard.local"

aggregator_user_password == "change-me"

\* bcrypt with a fresh salt: the hash is a function of the password here
PasswordHasher_hash(password) == [scheme |-> "bcrypt", password |-> password]

(***************************************************************************)
(* The inputs: URLs, scraped articles, scrapers, what a fetch returns.     *)
(***************************************************************************)
UrlStory == <<"h","t","t","p",":","/","/","a","/","x">>

\* the same story with another scheme and host case, a www. and a final slash
UrlStoryVariant ==
  <<"H","T","T","P",":","/","/","w","w","w",".","A","/","x","/">>

UrlOther == <<"h","t","t","p",":","/","/","a","/","y">>

Urls == {UrlStory, UrlStoryVariant, UrlOther}

ScrapedArticles ==
  { ScrapedArticle("Story", UrlStory, Some("text")),
    ScrapedArticle("Story mirrored", UrlStoryVariant, None),
    ScrapedArticle("Other", UrlOther, None) }

\* one story under two titles, with and without a summary
RetoldArticles ==
  { ScrapedArticle("Story", UrlStory, Some("text")),
    ScrapedArticle("Story retold", UrlStory, None) }

\* what a scrape() of these yields: up to MaxLen articles, or it raises
RetoldResults ==
  {[ok |-> TRUE, items |-> o] : o \in UNION {[1..n -> RetoldArticles] : n \in 0..MaxLen}}
    \cup {[ok |-> FALSE, items |-> <<>>]}

\* every sequence a scrape() can yield, up to MaxLen articles
Outputs == UNION {[1..n -> ScrapedArticles] : n \in 0..MaxLen}

FetchFailed == [ok |-> FALSE, items |-> <<>>]

\* scrape() returns the parsed feed or raises (HTTP error, malformed XML)
FetchResults == {[ok |-> TRUE, items |-> o] : o \in Outputs} \cup {FetchFailed}

FeedScraper(title, description) ==
  [newspaper_title |-> title, newspaper_description |-> description]

\* the scraper lists an aggregator is constructed with
ScraperLists ==
  { <<>>,
    <<FeedScraper("Paper A", Some("first"))>>,
    <<FeedScraper("Paper A", Some("first")), FeedScraper("Paper B", None)>>,
    <<FeedScraper("Paper A", Some("first")), FeedScraper("Paper A", Some("second"))>> }

\* the scraper lists of the aggregators that run concurrently: one scraper
\* is enough for two runs to meet on a URL
ConcurrentScraperLists == {l \in ScraperLists : Len(l) <= 1}

\* the scheduler processes: one in a deployment as designed, two when the
\* surrounding system starts the scheduler twice
Workers == {1}

ConcurrentWorkers == {1, 2}

(***************************************************************************)
(* The inputs of the calls made on a scraper directly.  A text is built    *)
(* from the parts that matter to the function it is given to, so that what *)
(* the function has to make of it is known from the parts.                 *)
(***************************************************************************)
\* every sequence over S of at most n elements
SeqsUpTo(S, n) == UNION {[1..k -> S] : k \in 0..n}

\* n times the text part
RECURSIVE Repeat(_, _)
Repeat(part, n) == IF n = 0 THEN <<>> ELSE part \o Repeat(part, n - 1)

\* URLs for the normalizer: scheme and host in either case, www. labels,
\* paths, queries and fragments that are empty or end in a slash
NormalizerUrls ==
  { pad \o scheme \o Text("://") \o Repeat(Text("www."), n) \o host
      \o path \o query \o fragment \o pad :
      pad \in {<<>>, Text(" ")},
      scheme \in {Text("http"), Text("HTTPS")},
      n \in 0..MaxWww,
      host \in {Text("a.io"), Text("A.io")},
      path \in {<<>>, Text("/"), Text("/x"), Text("/X/y/")},
      query \in {<<>>, Text("?"), Text("?q=1"), Text("?q=1/"), Text("?/")},
      fragment \in {<<>>, Text("#"), Text("#f"), Text("#/")} }

\* texts that are no URL with a host
OtherTexts ==
  { <<>>, Text(" "), Text("x"), Text("x/"), Text("/x//"), Text("//A.io/x/"),
    Text("mailto:x/"), Text("http://"), Text("http://[a.io/x/") }

NormalizerInputs ==
  {[fn |-> "_normalize_url", value |-> v] : v \in NormalizerUrls \cup OtherTexts}

\* link texts of RSS items with the URL that the item has by them (None for
\* an item without a link): missing, empty, blank, a URL, a URL in blanks
LinkTexts ==
  { [text |-> None, url |-> None],
    [text |-> Some(<<>>), url |-> None],
    [text |-> Some(Text(" ")), url |-> None],
    [text |-> Some(Text("http://a.io/x")), url |-> Some(Text("http://a.io/x"))],
    [text |-> Some(Text(" http://a.io/y ")), url |-> Some(Text("http://a.io/y"))] }

OrderItems ==
  {RssItem(title, link.text, None, None) :
     title \in {None, Some(Text("One"))}, link \in LinkTexts}

Alternate == Some(Text("alternate"))

\* the link children of Atom entries with the URL that the entry has by
\* them: none, without href, with an empty or a blank href, with and
\* without rel, alternate after self, related only, without rel after
\* self, self after an alternate without href
AtomLinkLists ==
  { [links |-> <<>>, url |-> None],
    [links |-> <<AtomLink(None, Alternate)>>, url |-> None],
    [links |-> <<AtomLink(Some(<<>>), Alternate)>>, url |-> None],
    [links |-> <<AtomLink(Some(Text(" ")), Alternate)>>, url |-> None],
    [links |-> <<AtomLink(Some(Text("http://a.io/x")), None)>>,
     url |-> Some(Text("http://a.io/x"))],
    [links |-> <<AtomLink(Some(Text(" http://a.io/y ")), Some(Text("self")))>>,
     url |-> Some(Text("http://a.io/y"))],
    [links |-> <<AtomLink(Some(Text("http://a.io/x")), Some(Text("self"))),
                 AtomLink(Some(Text("http://a.io/y")), Alternate)>>,
     url |-> Some(Text("http://a.io/y"))],
    [links |-> <<AtomLink(Some(<<>>), Alternate),
                 AtomLink(Some(Text("http://a.io/y")), Some(Text("related")))>>,
     url |-> Some(Text("http://a.io/y"))],
    [links |-> <<AtomLink(Some(Text("http://a.io/x")), Some(Text("self"))),
                 AtomLink(Some(Text("http://a.io/y")), None)>>,
     url |-> Some(Text("http://a.io/y"))],
    [links |-> <<AtomLink(None, Alternate),
                 AtomLink(Some(Text("http://a.io/x")), Some(Text("self")))>>,
     url |-> Some(Text("http://a.io/x"))] }

OrderEntries ==
  {AtomEntry(Some(Text("One")), linked.links, None, None) : linked \in AtomLinkLists}

\* a body with both kinds of element
MixedFeed ==
  [well_formed |-> TRUE,
   items |-> <<RssItem(None, Some(Text("http://a.io/x")), None, None)>>,
   entries |-> <<AtomEntry(None, <<AtomLink(Some(Text("http://a.io/y")), None)>>,
                           None, None)>>]

OrderFeeds ==
  {RssFeed(items) : items \in SeqsUpTo(OrderItems, MaxEntries)}
    \cup {AtomFeed(entries) : entries \in SeqsUpTo(OrderEntries, MaxEntries)}
    \cup {MalformedFeed, MixedFeed}

\* raw titles with what they are once trimmed, and their kind: without
\* content, a plain text, or a text that starts like an http(s) URL
RawTitles ==
  { [raw |-> None, trimmed |-> <<>>, kind |-> "empty"],
    [raw |-> Some(Text("  ")), trimmed |-> <<>>, kind |-> "empty"],
    [raw |-> Some(Text(" Plain title ")), trimmed |-> Text("Plain title"),
     kind |-> "plain"],
    [raw |-> Some(Text("ftp://t.io/raw")), trimmed |-> Text("ftp://t.io/raw"),
     kind |-> "plain"],
    [raw |-> Some(Text("http://t.io/raw")), trimmed |-> Text("http://t.io/raw"),
     kind |-> "url"],
    [raw |-> Some(Text(" HTTPS://T.io/Raw ")), trimmed |-> Text("HTTPS://T.io/Raw"),
     kind |-> "url"] }

\* the words of a last path segment, as written and as capitalised
Word(written, shown) == [written |-> Text(written), shown |-> Text(shown)]

SegmentWords ==
  { <<Word("my", "My"), Word("article", "Article")>>,
    <<Word("API", "Api")>>,
    <<Word("post2", "Post2"), Word("x.html", "X.html")>> }

Written(words) == [i \in DOMAIN words |-> words[i].written]

Shown(words) == [i \in DOMAIN words |-> words[i].shown]

\* links with the title that is to be derived from them (None: none can be)
SegmentLinks ==
  { [link |-> Text("http://") \o www \o Text("a.io") \o dir \o Text("/")
                \o Join(Written(words), <<sep>>) \o tail,
     derived |-> Some(Join(Shown(words), Text(" ")) \o Text(" (a.io)"))] :
      www \in {<<>>, Text("www.")},
      dir \in {<<>>, Text("/blog")},
      words \in SegmentWords,
      sep \in {"-", "_"},
      tail \in {<<>>, Text("/"), Text("?id=1")} }

OtherLinks ==
  { [link |-> Text("http://a.io"), derived |-> Some(Text("a.io"))],
    [link |-> Text("https://www.a.io/"), derived |-> Some(Text("a.io"))],
    [link |-> Text("my-article"), derived |-> Some(Text("My Article"))],
    [link |-> Text("/blog/my_article/"), derived |-> Some(Text("My Article"))],
    [link |-> Text("/"), derived |-> None],
    [link |-> Text("?id=1"), derived |-> None] }

TitledLinks == SegmentLinks \cup OtherLinks

\* the links whose URL a description repeats: scheme, host and the rest
EchoedLinks ==
  { [scheme |-> Text("https"), host |-> host, rest |-> rest] :
      host \in {Text("example.org"), Text("www.a.io")},
      rest \in {<<>>, Text("/story-title"), Text("/a/b?id=1"), Text("/x#top")} }

UrlOf(parts) == parts.scheme \o Text("://") \o parts.host \o parts.rest

\* the ways a description repeats the URL of the link
EchoKinds ==
  {"same", "slash", "upper_scheme", "upper_host", "upper_host_slash",
   "padded", "paragraph", "upper_all"}

Echo(kind, parts) ==
  CASE kind = "same" -> UrlOf(parts)
    [] kind = "slash" -> UrlOf(parts) \o Text("/")
    [] kind = "upper_scheme" -> UrlOf([parts EXCEPT !.scheme = Upper(@)])
    [] kind = "upper_host" -> UrlOf([parts EXCEPT !.host = Upper(@)])
    [] kind = "upper_host_slash" ->
         UrlOf([parts EXCEPT !.host = Upper(@)]) \o Text("/")
    [] kind = "padded" -> Text(" ") \o UrlOf(parts) \o Text("\n")
    [] kind = "paragraph" -> Text("<p>") \o UrlOf(parts) \o Text("</p>")
    [] kind = "upper_all" -> Upper(UrlOf(parts))

EchoItem(kind, parts) ==
  RssItem(Some(Text("Story")), Some(UrlOf(parts)), Some(Echo(kind, parts)), None)

\* the lines of descriptions: the text, the marker it has as written (its
\* index in metadata_markers, 0 for none), whether the line starts with it,
\* and the marker it has when letter case is ignored
Line(text, marker, starts, loose) ==
  [text |-> Text(text), marker |-> marker, starts |-> starts, loose |-> loose]

LineKinds ==
  { Line("Article URL: http://a.io/x", 1, TRUE, 1),
    Line("  Comments URL: http://a.io/c", 2, TRUE, 2),
    Line("Points: 10", 3, TRUE, 3),
    Line("# Comments: 5", 4, TRUE, 4),
    Line("Score, Points: 10", 3, FALSE, 3),
    Line("Some text.", 0, FALSE, 0),
    Line("points: none", 0, FALSE, 3) }

Texts(lines) == [i \in DOMAIN lines |-> lines[i].text]

\* a description of lines: the lines as they are, or one paragraph each
Described(layout, lines) ==
  IF layout = "lines" THEN Join(Texts(lines), Text("\n"))
  ELSE Text("<p>") \o Join(Texts(lines), Text("</p>\n<p>")) \o Text("</p>")

Descriptions == SeqsUpTo(LineKinds, MaxLines) \ {<<>>}

DescribedItem(layout, lines) ==
  RssItem(Some(Text("Story")), Some(Text("http://a.io/x")),
          Some(Described(layout, lines)), None)

\* the Atom entry that carries what an RSS item carries: the link as the
\* href of a link with rel alternate, the description as content or summary
AtomOf(item, tag) ==
  AtomEntry(item.title,
            IF item.link = None THEN <<>> ELSE <<AtomLink(item.link, Alternate)>>,
            IF tag = "content" THEN item.description ELSE None,
            IF tag = "summary" THEN item.description ELSE None)

\* the RSS item that carries what an Atom entry with one link carries
RssOf(entry) ==
  RssItem(entry.title, entry.links[1].href,
          IF entry.content # None THEN entry.content ELSE entry.summary, None)

\* the feeds parse_feed is given: a feed as it stands, or the feed of the
\* one element that is made of the parts named, as an RSS item or as an
\* Atom entry with the description in its content or its summary
Formats == {"rss", "content", "summary"}

ParseInputs ==
  {[fn |-> "parse_feed", of |-> "feed", feed |-> feed] : feed \in OrderFeeds}
    \cup {[fn |-> "parse_feed", of |-> "title", format |-> format,
           title |-> title, titled |-> titled] :
            format \in Formats, title \in RawTitles, titled \in TitledLinks}
    \cup {[fn |-> "parse_feed", of |-> "echo", format |-> format,
           kind |-> kind, parts |-> parts] :
            format \in Formats, kind \in EchoKinds, parts \in EchoedLinks}
    \cup {[fn |-> "parse_feed", of |-> "description", format |-> format,
           layout |-> layout, lines |-> lines] :
            format \in {"rss", "content"}, layout \in {"lines", "paragraphs"},
            lines \in Descriptions}

ItemOf(case) ==
  CASE case.of = "title" ->
         RssItem(case.title.raw, Some(case.titled.link), None, None)
    [] case.of = "echo" -> EchoItem(case.kind, case.parts)
    [] case.of = "description" -> DescribedItem(case.layout, case.lines)

FeedOf(case) ==
  IF case.of = "feed" THEN case.feed
  ELSE IF case.format = "rss" THEN RssFeed(<<ItemOf(case)>>)
  ELSE AtomFeed(<<AtomOf(ItemOf(case), case.format)>>)

\* the articles of a payload: the url missing, blank or there; title and
\* texts missing, blank with a content behind the blank description, there
\* without a description, or all there
NewsItems ==
  {NewsItem(url, rest[1], rest[2], rest[3]) :
     url \in {None, Some(Text(" ")), Some(Text(" http://a.io/n "))},
     rest \in {<<None, None, None>>,
               <<Some(Text(" ")), Some(Text(" ")), Some(Text(" body "))>>,
               <<Some(Text("Headline")), None, Some(Text("body"))>>,
               <<Some(Text(" Headline ")), Some(Text(" lead ")), Some(Text("body"))>>}}

NewsResponses ==
  {NewsResponse(TRUE, Some(articles)) : articles \in SeqsUpTo(NewsItems, MaxEntries)}
    \cup {NewsResponse(TRUE, None), NewsResponse(FALSE, None)}

\* what the endpoint answers without the q parameter
BroadResponses ==
  { NewsResponse(TRUE, Some(<<NewsItem(Some(Text("http://a.io/top")), None, None, None)>>)),
    NewsResponse(TRUE, Some(<<>>)),
    NewsResponse(FALSE, None) }

\* what stands between two lines of a raw text
BreakKinds == {"<br>", "<br/>", "</p><p>"}

LineNumbers == <<"1", "2", "3", "4", "5", "6", "7", "8", "9">>

\* the raw texts: lines "Line 1", "Line 2", .. with a break between every
\* two of them, in a paragraph or bare
CleanInputs ==
  UNION {{[fn |-> "clean_html", breaks |-> breaks, wrapped |-> wrapped] :
            breaks \in [1..n -> BreakKinds], wrapped \in BOOLEAN} : n \in 0..(MaxLines - 1)}

LineOf(i) == Text("Line ") \o <<LineNumbers[i]>>

RawOf(case) ==
  (IF case.wrapped THEN Text("<p>") ELSE <<>>)
    \o Concat([i \in 1..(Len(case.breaks) + 1) |->
                 IF i = 1 THEN LineOf(i) ELSE Text(case.breaks[i - 1]) \o LineOf(i)])
    \o (IF case.wrapped THEN Text("</p>") ELSE <<>>)

\* an argument of the constructor: missing, empty, blank, padded or plain
Arguments(word) ==
  {None, Some(<<>>), Some(Text(" ")), Some(Text(" ") \o word \o Text(" ")), Some(word)}

\* page sizes below, inside and above what the endpoint takes
PageSizes == {0, 20, 101}

NewsScraperInputs ==
  {[fn |-> "NewsAPIScraper", api_key |-> api_key, query |-> query,
    country |-> filters[1], category |-> filters[2], page_size |-> page_size] :
     api_key \in Arguments(Text("key")), query \in Arguments(Text("ai")),
     filters \in {<<None, None>>, <<Some(Text(" ")), Some(Text(" "))>>,
                  <<Some(Text("us")), None>>, <<Some(Text(" us ")), Some(Text("tech news"))>>},
     page_size \in PageSizes}

\* the scrapers that scrape: with and without a query filter, with and
\* without the other filters
NewsScrapers ==
  {NewsAPIScraper(Some(Text("key")), query, filters[1], filters[2], 20).value :
     query \in {None, Some(Text("ai"))},
     filters \in {<<None, None>>, <<Some(Text("us")), Some(Text("tech"))>>}}

NewsInputs ==
  {[fn |-> "NewsAPIScraper.scrape", scraper |-> scraper, with_query |-> first,
    without_query |-> second] :
     scraper \in NewsScrapers, first \in NewsResponses, second \in BroadResponses}

\* magazine slugs with what is left of them at the first slash
MagazineSlugs ==
  { [slug |-> Text("tech"), head |-> Text("tech")],
    [slug |-> Text("tech/awesome"), head |-> Text("tech")],
    [slug |-> Text("TechNews/highlights"), head |-> Text("TechNews")] }

\* the accepted spellings: what stands in front of the slug
Spellings ==
  { <<>>, Text("@"), Text("flipboard.com/@"), Text("http://flipboard.com/@"),
    Text("https://flipboard.com/@"), Text("HTTPS://Flipboard.com/@") }

\* what may follow the slug
Followers ==
  { <<>>, Text("?from=share"), Text("#top"), Text(".rss"),
    Text(".rss?from=share"), Text("?from=share#top") }

Spelled(spelling, slug, follower) == spelling \o slug \o follower

\* identifiers without a slug in them
EmptyIdentifiers ==
  { <<>>, Text(" "), Text("@"), Text(".rss"), Text("https://flipboard.com/"),
    Text("flipboard.com/@/"), Text(" @.rss?from=share ") }

FlipboardScrapers == {"FlipboardMagazineScraper", "FlipboardAccountScraper"}

\* the identifiers a Flipboard scraper is constructed with: a spelling of a
\* slug, or an identifier without one
FlipboardInputs ==
  {[fn |-> fn, of |-> "slug", spelling |-> spelling, named |-> named,
    follower |-> follower] :
     fn \in FlipboardScrapers, spelling \in Spellings, named \in MagazineSlugs,
     follower \in Followers}
    \cup {[fn |-> fn, of |-> "empty", identifier |-> identifier] :
            fn \in FlipboardScrapers, identifier \in EmptyIdentifiers}

IdentifierOf(case) ==
  IF case.of = "slug" THEN Spelled(case.spelling, case.named.slug, case.follower)
  ELSE case.identifier

\* an entry of FLIPBOARD_MAGAZINES with its kind: it names a slug, it is
\* blank, or it is not blank and reduces to an empty slug
Entry(text, kind) == [text |-> Text(text), kind |-> kind]

\* the entries of FLIPBOARD_MAGAZINES between its commas
MagazineEntries ==
  { <<>>,
    <<Entry("tech", "slug")>>,
    <<Entry("tech", "slug"), Entry(" ", "blank"), Entry("@news/world", "slug")>>,
    <<Entry(" ", "blank"), Entry("", "blank")>>,
    <<Entry("@", "empty")>>,
    <<Entry("tech", "slug"), Entry(".rss", "empty")>>,
    <<Entry("https://flipboard.com/", "empty"), Entry("tech", "slug")>> }

\* the value of the variable: the entries with commas between them
Listed(entries) == Some(Join(Texts(entries), Text(",")))

OneFeed == Some(Text("News | http://a.io/feed | All the news"))

\* the entries of FLIPBOARD_ACCOUNTS between its commas
AccountEntries ==
  { <<Entry("account1", "slug")>>,
    <<Entry("account1", "slug"), Entry(" ", "blank"), Entry("@b", "slug")>> }

Environment(magazines, accounts, feeds) ==
  [FLIPBOARD_MAGAZINES |-> magazines, FLIPBOARD_ACCOUNTS |-> accounts,
   RSS_FEEDS |-> feeds]

\* the environments main() is started in: the magazines unset or a comma
\* list, no RSS feeds or, beside at most one magazine entry, one; accounts
\* beside one feed and one magazine, or alone
Environments ==
  { Environment(None, None, feeds) : feeds \in {Some(<<>>), OneFeed} }
    \cup { Environment(Listed(entries), None, Some(<<>>)) : entries \in MagazineEntries }
    \cup { Environment(Listed(entries), None, OneFeed) :
             entries \in {e \in MagazineEntries : Len(e) <= 1} }
    \cup { Environment(Listed(<<Entry("tech", "slug")>>),
                       Listed(<<Entry("account1", "slug")>>), OneFeed) }
    \cup { Environment(Some(<<>>), Listed(entries), Some(<<>>)) :
             entries \in AccountEntries }

(***************************************************************************)
(* State.                                                                  *)
(***************************************************************************)
VARIABLES
  users,              \* table users: rows [id, email, password_hash]
  newspapers,         \* table newspapers: rows [id, title, description, owner_id]
  articles,           \* table articles: rows [id, title, content, url, owner_id]
  newspaper_articles, \* table newspaper_articles: pairs <<newspaper_id, article_id>>
  users_id_seq,       \* SERIAL sequences of the three tables
  newspapers_id_seq,
  articles_id_seq,
  scrapers,           \* FeedAggregator._scrapers
  fixed_feeds,        \* what the remote feeds serve while they are held fixed
  pc,                 \* per worker: where main() / run() stands
  owner_id,           \* per worker: run()'s owner_id (0 is None)
  idx,                \* per worker: the position of run()'s scraper loop
  newspaper_id,       \* per worker: run()'s newspaper_id
  remaining,          \* per worker: the articles scrape() has still to yield
  pos,                \* per worker: the position of the article loop
  existing,           \* per worker: run()'s existing (an article id, 0 is None)
  started_empty,      \* history: table articles was empty when the worker's run started
  completed,          \* history: the worker's consecutive returned runs, up to 2
  last_call,          \* history: the worker's latest repository call of this run
  made_newspapers,    \* history: ids of the newspapers created by runs
  made_articles,      \* history: <<article id, worker>> for articles created by runs
  environ,            \* os.environ, as far as get_settings reads it
  input,              \* a call made on a scraper directly: the callee and its arguments
  output,             \* what that call gave back, None while it has not been made
  requests,           \* the GET requests the News-API session has sent, in order
  external            \* history: what other actors did to the store, in order

tables == <<users, newspapers, articles, newspaper_articles,
            users_id_seq, newspapers_id_seq, articles_id_seq>>

config == <<scrapers, fixed_feeds>>

\* what a run is given and leaves alone
given == <<config, environ, input, output, requests, external>>

made == <<made_newspapers, made_articles>>

locals == <<owner_id, idx, newspaper_id, remaining, pos, existing>>

vars == <<tables, given, pc, locals, started_empty, completed, last_call, made>>

EmptyStore ==
  [users |-> {}, newspapers |-> {}, articles |-> {}, newspaper_articles |-> {},
   users_id_seq |-> 1, newspapers_id_seq |-> 1, articles_id_seq |-> 1]

\* a store another user already works in: a newspaper with a scraper's title
\* and an article with a feed's URL, both owned by that user
ReaderStore ==
  [users |-> {[id |-> 1, email |-> "reader@cringeboard.local",
               password_hash |-> PasswordHasher_hash("secret")]},
   newspapers |-> {[id |-> 1, title |-> "Paper A", description |-> None,
                    owner_id |-> 1]},
   articles |-> {[id |-> 1, title |-> "Saved", content |-> None,
                  url |-> UrlStory, owner_id |-> 1]},
   newspaper_articles |-> {<<1, 1>>},
   users_id_seq |-> 2, newspapers_id_seq |-> 2, articles_id_seq |-> 2]

InitialStores == {EmptyStore, ReaderStore}

NoCall == [op |-> "none", scraper |-> 0, pos |-> 0]

\* an environment that sets none of the names
NoEnviron ==
  [FLIPBOARD_MAGAZINES |-> None, FLIPBOARD_ACCOUNTS |-> None, RSS_FEEDS |-> None]

NoInput == [fn |-> "none"]

Init ==
  /\ \E s \in InitialStores :
       /\ users = s.users
       /\ newspapers = s.newspapers
       /\ articles = s.articles
       /\ newspaper_articles = s.newspaper_articles
       /\ users_id_seq = s.users_id_seq
       /\ newspapers_id_seq = s.newspapers_id_seq
       /\ articles_id_seq = s.articles_id_seq
  /\ scrapers \in ScraperLists
  /\ \/ fixed_feeds = [on |-> FALSE, content |-> <<>>]
     \/ \E c \in [1..Len(scrapers) -> FetchResults] :
          fixed_feeds = [on |-> TRUE, content |-> c]
  /\ pc = [p \in ConcurrentWorkers |-> "loop"]
  /\ owner_id = [p \in ConcurrentWorkers |-> 0]
  /\ idx = [p \in ConcurrentWorkers |-> 0]
  /\ newspaper_id = [p \in ConcurrentWorkers |-> 0]
  /\ remaining = [p \in ConcurrentWorkers |-> <<>>]
  /\ pos = [p \in ConcurrentWorkers |-> 0]
  /\ existing = [p \in ConcurrentWorkers |-> 0]
  /\ started_empty = [p \in ConcurrentWorkers |-> FALSE]
  /\ completed = [p \in ConcurrentWorkers |-> 0]
  /\ last_call = [p \in ConcurrentWorkers |-> NoCall]
  /\ made_newspapers = {}
  /\ made_articles = {}
  /\ environ = NoEnviron
  /\ input = NoInput
  /\ output = None
  /\ requests = <<>>
  /\ external = <<>>

(***************************************************************************)
(* Repository calls.  A lookup that SQL leaves unordered (fetchone, LIMIT  *)
(* 1 without ORDER BY) yields the set of the rows it may return; {0} is    *)
(* None.                                                                   *)
(***************************************************************************)
\* get_user_id with a lookup that never matches
get_user_id_unmatched(email) == 0

\* AuthRepository.get_user_id: users.email is UNIQUE, so at most one row
get_user_id(email) ==
  LET rows == {u \in users : u.email = email}
  IN  IF rows = {} THEN 0 ELSE (CHOOSE u \in rows : TRUE).id

\* find_newspaper_by_title with a lookup that never matches
find_newspaper_by_title_unmatched(a_owner_id, title) == {0}

\* find_newspaper_by_title without the owner_id condition
find_newspaper_by_title_any_owner(a_owner_id, title) ==
  LET rows == {n \in newspapers : n.title = title}
  IN  IF rows = {} THEN {0} ELSE {n.id : n \in rows}

find_newspaper_by_title(a_owner_id, title) ==
  LET rows == {n \in newspapers : n.owner_id = a_owner_id /\ n.title = title}
  IN  IF rows = {} THEN {0} ELSE {n.id : n \in rows}

\* find_article_by_url with a lookup that never matches
find_article_by_url_unmatched(url) == {0}

\* find_article_by_url that misses the row inserted last
find_article_by_url_stale(url) ==
  LET rows == {a \in articles : a.url = url /\ a.id + 1 < articles_id_seq}
  IN  IF rows = {} THEN {0} ELSE {a.id : a \in rows}

find_article_by_url(url) ==
  LET rows == {a \in articles : a.url = url}
  IN  IF rows = {} THEN {0} ELSE {a.id : a \in rows}

\* the membership insert with its two columns swapped
insert_newspaper_article_swapped(a_newspaper_id, article_id) ==
  newspaper_articles \cup {<<article_id, a_newspaper_id>>}

\* INSERT INTO newspaper_articles ... ON CONFLICT DO NOTHING
insert_newspaper_article(a_newspaper_id, article_id) ==
  newspaper_articles \cup {<<a_newspaper_id, article_id>>}

\* the rows create_article adds to table articles
create_article_rows(a_owner_id, title, content, url) ==
  {[id |-> articles_id_seq, title |-> title, content |-> content,
    url |-> url, owner_id |-> a_owner_id]}

\* the rows create_newspaper adds to table newspapers
create_newspaper_rows(a_owner_id, title, description) ==
  {[id |-> newspapers_id_seq, title |-> title, description |-> description,
    owner_id |-> a_owner_id]}

Call(op, scraper, position) == [op |-> op, scraper |-> scraper, pos |-> position]

\* the article loop leaving after its first article
NextArticle_break(p) ==
  /\ remaining' = [remaining EXCEPT ![p] = <<>>]
  /\ existing' = [existing EXCEPT ![p] = 0]
  /\ pos' = [pos EXCEPT ![p] = 0]
  /\ pc' = [pc EXCEPT ![p] = "for_scraper"]
  /\ idx' = [idx EXCEPT ![p] = @ + 1]

\* the article loop moves on: to the next article, or to the next scraper
NextArticle(p) ==
  /\ remaining' = [remaining EXCEPT ![p] = Tail(@)]
  /\ existing' = [existing EXCEPT ![p] = 0]
  /\ IF Len(remaining[p]) > 1
     THEN /\ pos' = [pos EXCEPT ![p] = @ + 1]
          /\ pc' = [pc EXCEPT ![p] = "find_article"]
          /\ idx' = idx
     ELSE /\ pos' = [pos EXCEPT ![p] = 0]
          /\ pc' = [pc EXCEPT ![p] = "for_scraper"]
          /\ idx' = [idx EXCEPT ![p] = @ + 1]

(***************************************************************************)
(* scheduler.main: while True: try: aggregator.run() except Exception:     *)
(* print(...); time.sleep(interval)                                        *)
(***************************************************************************)
\* the loop calls aggregator.run()
SchedulerRun(p) ==
  /\ pc[p] = "loop"
  /\ pc' = [pc EXCEPT ![p] = "get_user_id"]
  /\ owner_id' = [owner_id EXCEPT ![p] = 0]
  /\ idx' = [idx EXCEPT ![p] = 0]
  /\ newspaper_id' = [newspaper_id EXCEPT ![p] = 0]
  /\ remaining' = [remaining EXCEPT ![p] = <<>>]
  /\ pos' = [pos EXCEPT ![p] = 0]
  /\ existing' = [existing EXCEPT ![p] = 0]
  /\ started_empty' = [started_empty EXCEPT ![p] = (articles = {})]
  /\ last_call' = [last_call EXCEPT ![p] = NoCall]
  /\ UNCHANGED <<tables, given, completed, made>>

\* main() without the except branch: the exception ends the loop
LogFailure_uncaught(p) ==
  /\ pc[p] = "raised"
  /\ pc' = [pc EXCEPT ![p] = "exited"]
  /\ completed' = [completed EXCEPT ![p] = 0]
  /\ UNCHANGED <<tables, given, locals, started_empty, last_call, made>>

\* run() raised an Exception: the except branch prints it
LogFailure(p) ==
  /\ pc[p] = "raised"
  /\ pc' = [pc EXCEPT ![p] = "logged"]
  /\ completed' = [completed EXCEPT ![p] = 0]
  /\ UNCHANGED <<tables, given, locals, started_empty, last_call, made>>

\* time.sleep(interval), then the next iteration
Sleep(p) ==
  /\ pc[p] \in {"returned", "logged"}
  /\ pc' = [pc EXCEPT ![p] = "loop"]
  /\ UNCHANGED <<tables, given, locals, started_empty, completed, last_call, made>>

(***************************************************************************)
(* FeedAggregator.ensure_system_user                                       *)
(***************************************************************************)
GetUserId(p) ==
  /\ pc[p] = "get_user_id"
  /\ LET user_id == get_user_id(aggregator_user_email)
     IN  /\ owner_id' = [owner_id EXCEPT ![p] = user_id]
         /\ IF user_id # 0
            THEN /\ pc' = [pc EXCEPT ![p] = "for_scraper"]
                 /\ idx' = [idx EXCEPT ![p] = 1]
            ELSE /\ pc' = [pc EXCEPT ![p] = "create_user"]
                 /\ idx' = idx
  /\ last_call' = [last_call EXCEPT ![p] = Call("get_user_id", 0, 0)]
  /\ UNCHANGED <<tables, given, newspaper_id, remaining, pos, existing,
                 started_empty, completed, made>>

\* INSERT INTO users: the UNIQUE constraint on email rejects a second row,
\* and the sequence value is spent either way
CreateUser(p) ==
  /\ pc[p] = "create_user"
  /\ users_id_seq' = users_id_seq + 1
  /\ IF \E u \in users : u.email = aggregator_user_email
     THEN /\ pc' = [pc EXCEPT ![p] = "raised"]
          /\ UNCHANGED <<users, owner_id, idx>>
     ELSE /\ users' = users \cup
                 {[id |-> users_id_seq, email |-> aggregator_user_email,
                   password_hash |-> PasswordHasher_hash(aggregator_user_password)]}
          /\ owner_id' = [owner_id EXCEPT ![p] = users_id_seq]
          /\ pc' = [pc EXCEPT ![p] = "for_scraper"]
          /\ idx' = [idx EXCEPT ![p] = 1]
  /\ last_call' = [last_call EXCEPT ![p] = Call("create_user", 0, 0)]
  /\ UNCHANGED <<newspapers, articles, newspaper_articles, newspapers_id_seq,
                 articles_id_seq, given, newspaper_id, remaining, pos,
                 existing, started_empty, completed, made>>

(***************************************************************************)
(* FeedAggregator.run: the scraper loop and the article loop               *)
(***************************************************************************)
\* the scraper loop is exhausted: run() returns
RunReturn(p) ==
  /\ pc[p] = "for_scraper"
  /\ idx[p] > Len(scrapers)
  /\ pc' = [pc EXCEPT ![p] = "returned"]
  /\ completed' = [completed EXCEPT ![p] = IF @ < 2 THEN @ + 1 ELSE @]
  /\ UNCHANGED <<tables, given, locals, started_empty, last_call, made>>

\* ensure_newspaper: find_newspaper_by_title
FindNewspaper(p) ==
  /\ pc[p] = "for_scraper"
  /\ idx[p] <= Len(scrapers)
  /\ \E found \in find_newspaper_by_title(owner_id[p],
                                          scrapers[idx[p]].newspaper_title) :
       /\ newspaper_id' = [newspaper_id EXCEPT ![p] = found]
       /\ pc' = [pc EXCEPT ![p] =
                   IF found # 0 THEN "scrape" ELSE "create_newspaper"]
  /\ last_call' = [last_call EXCEPT ![p] = Call("find_newspaper_by_title", idx[p], 0)]
  /\ UNCHANGED <<tables, given, owner_id, idx, remaining, pos, existing,
                 started_empty, completed, made>>

\* ensure_newspaper that hands out the id of a newspaper and inserts no row
CreateNewspaper_unsaved(p) ==
  /\ pc[p] = "create_newspaper"
  /\ newspapers_id_seq' = newspapers_id_seq + 1
  /\ newspaper_id' = [newspaper_id EXCEPT ![p] = newspapers_id_seq]
  /\ made_newspapers' = made_newspapers \cup {newspapers_id_seq}
  /\ pc' = [pc EXCEPT ![p] = "scrape"]
  /\ last_call' = [last_call EXCEPT ![p] = Call("create_newspaper", idx[p], 0)]
  /\ UNCHANGED <<users, newspapers, articles, newspaper_articles, users_id_seq,
                 articles_id_seq, given, owner_id, idx, remaining, pos,
                 existing, started_empty, completed, made_articles>>

\* ensure_newspaper: create_newspaper
CreateNewspaper(p) ==
  /\ pc[p] = "create_newspaper"
  /\ newspapers' = newspapers \cup
       create_newspaper_rows(owner_id[p], scrapers[idx[p]].newspaper_title,
                             scrapers[idx[p]].newspaper_description)
  /\ newspapers_id_seq' = newspapers_id_seq + 1
  /\ newspaper_id' = [newspaper_id EXCEPT ![p] = newspapers_id_seq]
  /\ made_newspapers' = made_newspapers \cup {newspapers_id_seq}
  /\ pc' = [pc EXCEPT ![p] = "scrape"]
  /\ last_call' = [last_call EXCEPT ![p] = Call("create_newspaper", idx[p], 0)]
  /\ UNCHANGED <<users, articles, newspaper_articles, users_id_seq,
                 articles_id_seq, given, owner_id, idx, remaining, pos,
                 existing, started_empty, completed, made_articles>>

\* what scraper i's scrape() can do: anything, or what the fixed feeds say
scrape(i) ==
  IF fixed_feeds.on THEN {fixed_feeds.content[i]} ELSE FetchResults

\* scrape() whose failure undoes what the run has persisted so far
Scrape_rollback(p) ==
  /\ pc[p] = "scrape"
  /\ \E r \in scrape(idx[p]) :
       IF ~r.ok
       THEN /\ pc' = [pc EXCEPT ![p] = "raised"]
            /\ articles' = {a \in articles : \A q \in made_articles : q[1] # a.id}
            /\ newspaper_articles' =
                 {m \in newspaper_articles : \A q \in made_articles : q[1] # m[2]}
            /\ UNCHANGED <<idx, remaining, pos>>
       ELSE IF r.items = <<>>
       THEN /\ pc' = [pc EXCEPT ![p] = "for_scraper"]
            /\ idx' = [idx EXCEPT ![p] = @ + 1]
            /\ UNCHANGED <<remaining, pos, articles, newspaper_articles>>
       ELSE /\ pc' = [pc EXCEPT ![p] = "find_article"]
            /\ remaining' = [remaining EXCEPT ![p] = r.items]
            /\ pos' = [pos EXCEPT ![p] = 1]
            /\ idx' = idx
            /\ UNCHANGED <<articles, newspaper_articles>>
  /\ UNCHANGED <<users, newspapers, users_id_seq, newspapers_id_seq,
                 articles_id_seq, given, owner_id, newspaper_id, existing,
                 started_empty, completed, last_call, made>>

\* scraper.scrape(): the fetch and the parse; a failure leaves run()
Scrape(p) ==
  /\ pc[p] = "scrape"
  /\ \E r \in scrape(idx[p]) :
       IF ~r.ok
       THEN /\ pc' = [pc EXCEPT ![p] = "raised"]
            /\ UNCHANGED <<idx, remaining, pos>>
       ELSE IF r.items = <<>>
       THEN /\ pc' = [pc EXCEPT ![p] = "for_scraper"]
            /\ idx' = [idx EXCEPT ![p] = @ + 1]
            /\ UNCHANGED <<remaining, pos>>
       ELSE /\ pc' = [pc EXCEPT ![p] = "find_article"]
            /\ remaining' = [remaining EXCEPT ![p] = r.items]
            /\ pos' = [pos EXCEPT ![p] = 1]
            /\ idx' = idx
  /\ UNCHANGED <<tables, given, owner_id, newspaper_id, existing, started_empty,
                 completed, last_call, made>>

FindArticle(p) ==
  /\ pc[p] = "find_article"
  /\ \E found \in find_article_by_url(Head(remaining[p]).url) :
       /\ existing' = [existing EXCEPT ![p] = found]
       /\ pc' = [pc EXCEPT ![p] =
                   IF found = 0 THEN "create_article" ELSE "assign_article"]
  /\ last_call' = [last_call EXCEPT ![p] = Call("find_article_by_url", idx[p], pos[p])]
  /\ UNCHANGED <<tables, given, owner_id, idx, newspaper_id, remaining, pos,
                 started_empty, completed, made>>

CreateArticle(p) ==
  /\ pc[p] = "create_article"
  /\ LET article == Head(remaining[p])
     IN  articles' = articles \cup
           create_article_rows(owner_id[p], article.title, article.summary,
                               article.url)
  /\ articles_id_seq' = articles_id_seq + 1
  /\ newspaper_articles' = insert_newspaper_article(newspaper_id[p], articles_id_seq)
  /\ made_articles' = made_articles \cup {<<articles_id_seq, p>>}
  /\ last_call' = [last_call EXCEPT ![p] = Call("create_article", idx[p], pos[p])]
  /\ NextArticle(p)
  /\ UNCHANGED <<users, newspapers, users_id_seq, newspapers_id_seq, given,
                 owner_id, newspaper_id, started_empty, completed, made_newspapers>>

\* the attachment as an upsert: the article takes the scraped title and
\* summary
AssignArticle_overwriting(p) ==
  /\ pc[p] = "assign_article"
  /\ articles' =
       {IF a.id = existing[p]
        THEN [a EXCEPT !.title = Head(remaining[p]).title,
                       !.content = Head(remaining[p]).summary]
        ELSE a : a \in articles}
  /\ newspaper_articles' = insert_newspaper_article(newspaper_id[p], existing[p])
  /\ last_call' = [last_call EXCEPT ![p] =
                     Call("assign_article_to_newspaper", idx[p], pos[p])]
  /\ NextArticle(p)
  /\ UNCHANGED <<users, newspapers, users_id_seq, newspapers_id_seq,
                 articles_id_seq, given, owner_id, newspaper_id, started_empty,
                 completed, made>>

\* the attachment left out: an article that exists is passed over
AssignArticle_skipped(p) ==
  /\ pc[p] = "assign_article"
  /\ last_call' = [last_call EXCEPT ![p] =
                     Call("assign_article_to_newspaper", idx[p], pos[p])]
  /\ NextArticle(p)
  /\ UNCHANGED <<tables, given, owner_id, newspaper_id, started_empty,
                 completed, made>>

\* the attachment as a move: the article leaves its other newspapers
AssignArticle_moved(p) ==
  /\ pc[p] = "assign_article"
  /\ newspaper_articles' =
       {m \in newspaper_articles : m[2] # existing[p]}
         \cup {<<newspaper_id[p], existing[p]>>}
  /\ last_call' = [last_call EXCEPT ![p] =
                     Call("assign_article_to_newspaper", idx[p], pos[p])]
  /\ NextArticle(p)
  /\ UNCHANGED <<users, newspapers, articles, users_id_seq, newspapers_id_seq,
                 articles_id_seq, given, owner_id, newspaper_id, started_empty,
                 completed, made>>

\* assign_article_to_newspaper(existing["id"], newspaper_id)
AssignArticle(p) ==
  /\ pc[p] = "assign_article"
  /\ newspaper_articles' = insert_newspaper_article(newspaper_id[p], existing[p])
  /\ last_call' = [last_call EXCEPT ![p] =
                     Call("assign_article_to_newspaper", idx[p], pos[p])]
  /\ NextArticle(p)
  /\ UNCHANGED <<users, newspapers, articles, users_id_seq, newspapers_id_seq,
                 articles_id_seq, given, owner_id, newspaper_id, started_empty,
                 completed, made>>

Step(p) ==
  \/ SchedulerRun(p)
  \/ GetUserId(p)
  \/ CreateUser(p)
  \/ FindNewspaper(p)
  \/ CreateNewspaper(p)
  \/ Scrape(p)
  \/ FindArticle(p)
  \/ CreateArticle(p)
  \/ AssignArticle(p)
  \/ RunReturn(p)
  \/ LogFailure(p)
  \/ Sleep(p)

\* one scheduler: runs are sequential
Next == \E p \in Workers : Step(p)

Spec == Init /\ [][Next]_vars

(***************************************************************************)
(* Calls made on a scraper directly, while no aggregator runs: the call is *)
(* made once and what it gives back is kept.                               *)
(***************************************************************************)
run_state == <<pc, locals, started_empty, completed, last_call, made>>

\* list(scraper.parse_feed(body))
ParseFeed ==
  /\ input.fn = "parse_feed"
  /\ output = None
  /\ output' = Some(parse_feed(FeedOf(input)))
  /\ UNCHANGED <<tables, config, environ, input, requests, external, run_state>>

\* BaseRSSScraper.clean_html(raw)
CleanHtml ==
  /\ input.fn = "clean_html"
  /\ output = None
  /\ output' = Some(Returned(clean_html(RawOf(input))))
  /\ UNCHANGED <<tables, config, environ, input, requests, external, run_state>>

\* scraper._normalize_url(value)
NormalizeUrl ==
  /\ input.fn = "_normalize_url"
  /\ output = None
  /\ output' = Some(Returned(_normalize_url(input.value)))
  /\ UNCHANGED <<tables, config, environ, input, requests, external, run_state>>

\* NewsAPIScraper(api_key, query, country, category, page_size)
NewNewsApiScraper ==
  /\ input.fn = "NewsAPIScraper"
  /\ output = None
  /\ output' = Some(NewsAPIScraper(input.api_key, input.query, input.country,
                                   input.category, input.page_size))
  /\ UNCHANGED <<tables, config, environ, input, requests, external, run_state>>

\* list(scraper.scrape()), the session answering as the input says
NewsApiScrape ==
  /\ input.fn = "NewsAPIScraper.scrape"
  /\ output = None
  /\ output' = Some(NewsAPIScraper_scrape(input.scraper._query, input.with_query,
                                          input.without_query))
  /\ requests' = NewsAPIScraper_requests(input.scraper, input.with_query)
  /\ UNCHANGED <<tables, config, environ, input, external, run_state>>

\* FlipboardMagazineScraper(identifier)
NewMagazineScraper ==
  /\ input.fn = "FlipboardMagazineScraper"
  /\ output = None
  /\ output' = Some(FlipboardMagazineScraper(IdentifierOf(input)))
  /\ UNCHANGED <<tables, config, environ, input, requests, external, run_state>>

\* FlipboardAccountScraper(identifier)
NewAccountScraper ==
  /\ input.fn = "FlipboardAccountScraper"
  /\ output = None
  /\ output' = Some(FlipboardAccountScraper(IdentifierOf(input)))
  /\ UNCHANGED <<tables, config, environ, input, requests, external, run_state>>

\* no process of the scheduler has run: the store is empty, no call is made
Idle ==
  /\ users = EmptyStore.users
  /\ newspapers = EmptyStore.newspapers
  /\ articles = EmptyStore.articles
  /\ newspaper_articles = EmptyStore.newspaper_articles
  /\ users_id_seq = EmptyStore.users_id_seq
  /\ newspapers_id_seq = EmptyStore.newspapers_id_seq
  /\ articles_id_seq = EmptyStore.articles_id_seq
  /\ scrapers = <<>>
  /\ fixed_feeds = [on |-> FALSE, content |-> <<>>]
  /\ owner_id = [p \in ConcurrentWorkers |-> 0]
  /\ idx = [p \in ConcurrentWorkers |-> 0]
  /\ newspaper_id = [p \in ConcurrentWorkers |-> 0]
  /\ remaining = [p \in ConcurrentWorkers |-> <<>>]
  /\ pos = [p \in ConcurrentWorkers |-> 0]
  /\ existing = [p \in ConcurrentWorkers |-> 0]
  /\ started_empty = [p \in ConcurrentWorkers |-> FALSE]
  /\ completed = [p \in ConcurrentWorkers |-> 0]
  /\ last_call = [p \in ConcurrentWorkers |-> NoCall]
  /\ made_newspapers = {}
  /\ made_articles = {}
  /\ output = None
  /\ requests = <<>>
  /\ external = <<>>

ScraperInit ==
  /\ Idle
  /\ pc = [p \in ConcurrentWorkers |-> "idle"]
  /\ environ = NoEnviron
  /\ input \in ParseInputs \cup CleanInputs \cup NormalizerInputs \cup NewsScraperInputs
                \cup NewsInputs \cup FlipboardInputs

ScraperNext ==
  \/ ParseFeed
  \/ CleanHtml
  \/ NormalizeUrl
  \/ NewNewsApiScraper
  \/ NewsApiScrape
  \/ NewMagazineScraper
  \/ NewAccountScraper

ScraperSpec == ScraperInit /\ [][ScraperNext]_vars

(***************************************************************************)
(* scheduler.main up to its loop: settings = get_settings(); scrapers =    *)
(* build_scrapers(settings); aggregator = FeedAggregator(..., scrapers).   *)
(* An exception of build_scrapers is outside the loop's try: it ends the   *)
(* process.                                                                *)
(***************************************************************************)
Main(p) ==
  /\ pc[p] = "main"
  /\ LET built == build_scrapers(get_settings(environ))
     IN  IF built.raised
         THEN /\ pc' = [pc EXCEPT ![p] = "crashed"]
              /\ UNCHANGED scrapers
         ELSE /\ pc' = [pc EXCEPT ![p] = "loop"]
              /\ scrapers' = built.value
  /\ UNCHANGED <<tables, fixed_feeds, environ, input, output, requests, external, locals,
                 started_empty, completed, last_call, made>>

\* the scheduler is started in an environment, or a Flipboard scraper is
\* constructed on its own
MainInit ==
  /\ Idle
  /\ \/ /\ pc = [p \in ConcurrentWorkers |-> IF p \in Workers THEN "main" ELSE "idle"]
        /\ environ \in Environments
        /\ input = NoInput
     \/ /\ pc = [p \in ConcurrentWorkers |-> "idle"]
        /\ environ = NoEnviron
        /\ input \in FlipboardInputs

MainNext ==
  \/ \E p \in Workers : Main(p)
  \/ \E p \in Workers : Step(p)
  \/ NewMagazineScraper
  \/ NewAccountScraper

MainSpec == MainInit /\ [][MainNext]_vars

(***************************************************************************)
(* What the properties speak of.                                           *)
(***************************************************************************)
\* the accounts with the configured aggregator email
SystemUsers == {u \in users : u.email = aggregator_user_email}

SystemOwned(row) == \E u \in SystemUsers : row.owner_id = u.id

\* the newspapers an article is attached to (fetch_article's newspaper_ids)
NewspaperIds(article_id) ==
  {pair[1] : pair \in {q \in newspaper_articles : q[2] = article_id}}

\* with the feeds fixed: the scrapers whose output includes url
YieldingScrapers(url) ==
  {i \in DOMAIN scrapers :
     \E k \in DOMAIN fixed_feeds.content[i].items :
       fixed_feeds.content[i].items[k].url = url}

\* the system owner's newspapers that carry the display title of scraper i
ScraperNewspapers(i) ==
  {n.id : n \in {m \in newspapers :
                   SystemOwned(m) /\ m.title = scrapers[i].newspaper_title}}

\* the worker whose run created the article, 0 for an article no run created
Creator(article_id) ==
  IF \E q \in made_articles : q[1] = article_id
  THEN (CHOOSE q \in made_articles : q[1] = article_id)[2]
  ELSE 0

InArticleLoop(p) == pc[p] \in {"find_article", "create_article", "assign_article"}

(***************************************************************************)
(* C1.  Sequential runs, whatever the scrapers yield, never leave two      *)
(* persisted articles with the same URL.                                   *)
(***************************************************************************)
UrlUniqueness == \A a, b \in articles : a.url = b.url => a = b

\* a returned run in which one scraper yielded a URL twice and the other
\* scraper yielded it too, and one article carries it
UrlUniquenessWitness ==
  /\ fixed_feeds.on
  /\ Len(scrapers) = 2
  /\ pc[1] = "returned"
  /\ \E u \in Urls :
       /\ Cardinality({k \in DOMAIN fixed_feeds.content[1].items :
                         fixed_feeds.content[1].items[k].url = u}) = 2
       /\ 2 \in YieldingScrapers(u)
       /\ Cardinality({a \in articles : a.url = u}) = 1

(***************************************************************************)
(* C2.  After one returned run that started with no articles, every URL    *)
(* some scraper yielded is carried by exactly one article, attached to     *)
(* exactly the newspapers of the scrapers that yielded it.                 *)
(***************************************************************************)
MembershipPostcondition ==
  \A p \in Workers :
    (pc[p] = "returned" /\ started_empty[p] /\ fixed_feeds.on) =>
      \A u \in Urls :
        YieldingScrapers(u) # {} =>
          \E a \in articles :
            /\ a.url = u
            /\ \A b \in articles : b.url = u => b = a
            /\ NewspaperIds(a.id) =
                 UNION {ScraperNewspapers(i) : i \in YieldingScrapers(u)}

\* a URL both scrapers yielded, its article attached to two newspapers
MembershipWitness ==
  /\ pc[1] = "returned" /\ started_empty[1] /\ fixed_feeds.on
  /\ \E u \in Urls :
       /\ YieldingScrapers(u) = {1, 2}
       /\ \E a \in articles : a.url = u /\ Cardinality(NewspaperIds(a.id)) = 2
  /\ \E u \in Urls : YieldingScrapers(u) = {2}

(***************************************************************************)
(* C3.  With the feeds unchanged, the run after a returned run changes no  *)
(* table (no user, newspaper, article or membership is added) and does     *)
(* not fail: attaching an attached article is a no-op.                     *)
(***************************************************************************)
IdempotentReingestion ==
  /\ [][\A p \in Workers :
          (fixed_feeds.on /\ completed[p] >= 1) => tables' = tables]_vars
  /\ [](\A p \in Workers :
          (fixed_feeds.on /\ completed[p] >= 1) => pc[p] # "raised")

\* the second of two returned runs over feeds that yield articles
IdempotentWitness ==
  /\ fixed_feeds.on
  /\ completed[1] = 2
  /\ pc[1] = "returned"
  /\ Len(scrapers) = 2
  /\ \A i \in DOMAIN scrapers : Len(fixed_feeds.content[i].items) = MaxLen
  /\ last_call[1].op = "assign_article_to_newspaper"

(***************************************************************************)
(* C4.  When a scraper fails, every scraper after it in the list is still  *)
(* processed in the same run.  Stated for the state in which run() has     *)
(* left with the exception: no scraper after the failed one remains.       *)
(***************************************************************************)
FailureIsolation ==
  \A p \in Workers :
    (pc[p] = "raised" /\ idx[p] >= 1) => idx[p] >= Len(scrapers)

(***************************************************************************)
(* C5.  Two interleaved runs can both miss a URL and both create it: two   *)
(* articles with one URL are reachable, and such a pair is always the work *)
(* of two different runs, never of one.                                    *)
(***************************************************************************)
DuplicatesOnlyAcrossRuns ==
  \A a, b \in articles :
    (a # b /\ a.url = b.url) =>
      /\ Creator(a.id) # 0
      /\ Creator(b.id) # 0
      /\ Creator(a.id) # Creator(b.id)

\* both runs are past their lookup of one URL and two articles carry it
DuplicateUrlReached ==
  \E a, b \in articles :
    /\ a # b
    /\ a.url = b.url
    /\ Creator(a.id) = 1
    /\ Creator(b.id) = 2

(***************************************************************************)
(* C6.  Two scraped articles whose URLs have the same canonical form are   *)
(* reconciled to one article.                                              *)
(***************************************************************************)
CanonicalDedup ==
  \A a, b \in articles :
    _normalize_url(a.url) = _normalize_url(b.url) => a = b

(***************************************************************************)
(* C7.  There is never more than one account with the aggregator email,    *)
(* ensure_system_user never fails in sequential runs, once it is done      *)
(* there is exactly one such account, with the hash of the configured      *)
(* password, and it owns every newspaper and article a run created.        *)
(***************************************************************************)
SystemOwnerSingleton ==
  /\ Cardinality(SystemUsers) <= 1
  /\ \A u \in SystemUsers :
       u.password_hash = PasswordHasher_hash(aggregator_user_password)
  /\ \A p \in Workers :
       /\ pc[p] = "raised" => idx[p] >= 1
       /\ idx[p] >= 1 =>
            /\ Cardinality(SystemUsers) = 1
            /\ \A u \in SystemUsers : owner_id[p] = u.id
  /\ \A n \in newspapers : n.id \in made_newspapers => SystemOwned(n)
  /\ \A a \in articles : Creator(a.id) # 0 => SystemOwned(a)

\* a second returned run, beside another user's newspaper and article
SystemOwnerWitness ==
  /\ completed[1] = 2
  /\ pc[1] = "returned"
  /\ Cardinality(users) = 2
  /\ Cardinality(SystemUsers) = 1
  /\ \E n \in newspapers : n.id \in made_newspapers
  /\ \E a \in articles : Creator(a.id) = 1
  /\ \E a \in articles : Creator(a.id) = 0

(***************************************************************************)
(* C8.  The system owner has at most one newspaper per display title, the  *)
(* newspaper a scraper's articles go to is that one, and a newspaper is    *)
(* created only when the owner has none with the title.                    *)
(***************************************************************************)
NewspaperUniqueness ==
  /\ \A n, m \in newspapers :
       (SystemOwned(n) /\ SystemOwned(m) /\ n.title = m.title) => n = m
  /\ \A p \in Workers :
       (pc[p] = "scrape" \/ InArticleLoop(p)) =>
         ScraperNewspapers(idx[p]) = {newspaper_id[p]}
  /\ \A p \in Workers :
       pc[p] = "create_newspaper" => ScraperNewspapers(idx[p]) = {}

\* two scrapers with one title have put their articles in one newspaper,
\* beside another user's newspaper with the same title
NewspaperUniquenessWitness ==
  /\ pc[1] = "returned"
  /\ Len(scrapers) = 2
  /\ scrapers[1].newspaper_title = scrapers[2].newspaper_title
  /\ Cardinality({n \in newspapers : n.title = scrapers[1].newspaper_title}) = 2
  /\ Cardinality(ScraperNewspapers(1)) = 1
  /\ fixed_feeds.on
  /\ fixed_feeds.content[1].items # <<>>
  /\ fixed_feeds.content[2].items # <<>>
  /\ fixed_feeds.content[1].items[1].url # fixed_feeds.content[2].items[1].url
  /\ \A a \in articles :
       Creator(a.id) = 1 => NewspaperIds(a.id) = ScraperNewspapers(1)

\* the scheduler thread keeps executing: every call it makes returns or raises
\* (the fetches have timeouts) and time.sleep returns
LiveSpec == Spec /\ WF_vars(Next)

\* two runs against one database, started by two schedulers: each worker
\* makes one pass of its loop and the repository calls of the two interleave
ConcurrentNext ==
  \E p \in ConcurrentWorkers :
    \/ SchedulerRun(p)
    \/ GetUserId(p)
    \/ CreateUser(p)
    \/ FindNewspaper(p)
    \/ CreateNewspaper(p)
    \/ Scrape(p)
    \/ FindArticle(p)
    \/ CreateArticle(p)
    \/ AssignArticle(p)
    \/ RunReturn(p)
    \/ LogFailure(p)

\* the two runs see the same feeds
ConcurrentInit ==
  /\ Init
  /\ fixed_feeds.on
  /\ scrapers \in ConcurrentScraperLists

ConcurrentSpec == ConcurrentInit /\ [][ConcurrentNext]_vars

(***************************************************************************)
(* Other actors of the store.  The API's services call                     *)
(* AggregatorRepository.detach_article_from_newspaper and delete_article   *)
(* on behalf of users; here they do so while no run is under way.          *)
(***************************************************************************)
\* no worker is inside run()
BetweenRuns == \A p \in Workers : pc[p] \in {"loop", "returned", "logged"}

\* DELETE FROM newspaper_articles WHERE newspaper_id = .. AND article_id = ..
DetachArticle(article_id, a_newspaper_id) ==
  /\ BetweenRuns
  /\ Len(external) < MaxExternal
  /\ <<a_newspaper_id, article_id>> \in newspaper_articles
  /\ newspaper_articles' = newspaper_articles \ {<<a_newspaper_id, article_id>>}
  /\ external' = Append(external, [op |-> "detach", article_id |-> article_id,
                                   newspaper_id |-> a_newspaper_id])
  /\ UNCHANGED <<users, newspapers, articles, users_id_seq, newspapers_id_seq,
                 articles_id_seq, config, environ, input, output, requests,
                 run_state>>

\* DELETE FROM articles WHERE id = ..: the membership rows go with the
\* article (ON DELETE CASCADE)
DeleteArticle(article_id) ==
  /\ BetweenRuns
  /\ Len(external) < MaxExternal
  /\ \E a \in articles : a.id = article_id
  /\ articles' = {a \in articles : a.id # article_id}
  /\ newspaper_articles' = {m \in newspaper_articles : m[2] # article_id}
  /\ external' = Append(external, [op |-> "delete", article_id |-> article_id,
                                   newspaper_id |-> 0])
  /\ UNCHANGED <<users, newspapers, users_id_seq, newspapers_id_seq,
                 articles_id_seq, config, environ, input, output, requests,
                 run_state>>

\* an aggregator over feeds that stay as they are and tell one story under
\* two titles
ReconcileInit ==
  /\ \E s \in InitialStores :
       /\ users = s.users
       /\ newspapers = s.newspapers
       /\ articles = s.articles
       /\ newspaper_articles = s.newspaper_articles
       /\ users_id_seq = s.users_id_seq
       /\ newspapers_id_seq = s.newspapers_id_seq
       /\ articles_id_seq = s.articles_id_seq
  /\ scrapers \in ScraperLists
  /\ \E c \in [1..Len(scrapers) -> RetoldResults] :
       fixed_feeds = [on |-> TRUE, content |-> c]
  /\ pc = [p \in ConcurrentWorkers |-> "loop"]
  /\ owner_id = [p \in ConcurrentWorkers |-> 0]
  /\ idx = [p \in ConcurrentWorkers |-> 0]
  /\ newspaper_id = [p \in ConcurrentWorkers |-> 0]
  /\ remaining = [p \in ConcurrentWorkers |-> <<>>]
  /\ pos = [p \in ConcurrentWorkers |-> 0]
  /\ existing = [p \in ConcurrentWorkers |-> 0]
  /\ started_empty = [p \in ConcurrentWorkers |-> FALSE]
  /\ completed = [p \in ConcurrentWorkers |-> 0]
  /\ last_call = [p \in ConcurrentWorkers |-> NoCall]
  /\ made_newspapers = {}
  /\ made_articles = {}
  /\ environ = NoEnviron
  /\ input = NoInput
  /\ output = None
  /\ requests = <<>>
  /\ external = <<>>

ReconcileNext ==
  \/ \E p \in Workers : Step(p)
  \/ \E pair \in newspaper_articles : DetachArticle(pair[2], pair[1])
  \/ \E a \in articles : DeleteArticle(a.id)

ReconcileSpec == ReconcileInit /\ [][ReconcileNext]_vars


(***************************************************************************)
(* C9.  The repository calls of one run are ordered: the owner is resolved *)
(* before any newspaper lookup, the scrapers are taken in list order with  *)
(* all calls of one before all calls of the next, each scraper starts with *)
(* its newspaper lookup, its articles follow in the order yielded, none    *)
(* skipped, and an empty scraper list makes no newspaper or article call.  *)
(***************************************************************************)
ArticleCalls ==
  {"find_article_by_url", "create_article", "assign_article_to_newspaper"}

\* worker p makes the repository call d right after its call c
CallInOrder(p, c, d) ==
  /\ c.op = "none" => d.op = "get_user_id"
  /\ d.scraper \in {c.scraper, c.scraper + 1}
  /\ d.scraper >= 1 => \E u \in SystemUsers : owner_id[p] = u.id
  /\ d.scraper = c.scraper + 1 =>
       /\ d.op = "find_newspaper_by_title"
       /\ d.pos = 0
       /\ (fixed_feeds.on /\ c.scraper >= 1) =>
            c.pos = Len(fixed_feeds.content[c.scraper].items)
  /\ d.scraper = c.scraper =>
       /\ d.pos \in {c.pos, c.pos + 1}
       /\ d.pos = c.pos + 1 => d.op = "find_article_by_url"
       /\ d.pos = c.pos =>
            \/ c.op = "none" /\ d.op = "get_user_id"
            \/ c.op = "get_user_id" /\ d.op = "create_user"
            \/ c.op = "find_newspaper_by_title" /\ d.op = "create_newspaper"
            \/ c.op = "find_article_by_url"
                 /\ d.op \in {"create_article", "assign_article_to_newspaper"}
  /\ d.op \in ArticleCalls =>
       /\ d.pos >= 1
       /\ newspaper_id[p] \in ScraperNewspapers(d.scraper)
       /\ fixed_feeds.on =>
            Head(remaining[p]) = fixed_feeds.content[d.scraper].items[d.pos]

RunOrdering ==
  /\ [][\A p \in Workers :
          (last_call'[p] # last_call[p] /\ last_call'[p].op # "none") =>
            CallInOrder(p, last_call[p], last_call'[p])]_vars
  /\ [](\A p \in Workers :
          scrapers = <<>> =>
            last_call[p].op \in {"none", "get_user_id", "create_user"})

\* the last article of the last of two scrapers has been reconciled
RunOrderingWitness ==
  /\ pc[1] = "returned"
  /\ Len(scrapers) = 2
  /\ last_call[1].scraper = 2
  /\ last_call[1].pos = MaxLen
  /\ last_call[1].op = "create_article"
  /\ Cardinality(articles) >= 3

(***************************************************************************)
(* C10.  An exception of run() never ends the scheduler loop: it is        *)
(* logged, the loop sleeps and starts another run, so a run is started     *)
(* again and again; and a run starts only after the previous one has       *)
(* returned or raised and the loop has slept.                              *)
(***************************************************************************)
SchedulerKeepsRunning ==
  /\ (pc[1] = "raised") ~> (pc[1] = "get_user_id")
  /\ []<>(pc[1] = "get_user_id")
  /\ [][\A p \in Workers :
          /\ (pc[p] = "raised" /\ pc'[p] # "raised") => pc'[p] = "logged"
          /\ (pc'[p] = "loop" /\ pc[p] # "loop") =>
               pc[p] \in {"returned", "logged"}
          /\ (pc'[p] = "get_user_id" /\ pc[p] # "get_user_id") =>
               pc[p] = "loop"]_vars

\* a run starts although the run before it raised
SchedulerWitness ==
  /\ pc[1] = "get_user_id"
  /\ completed[1] = 0
  /\ SystemUsers # {}
  /\ made_newspapers # {}

(***************************************************************************)
(* C11.  When the fetch or the parse of scraper k fails, run() leaves with *)
(* the exception, and no article of scraper k is created or attached in    *)
(* that run.  Stated as in the claim, for a run that started with no       *)
(* articles: the newspaper of the failed scraper has no article.           *)
(***************************************************************************)
FailedScraperNewspaperEmpty ==
  \A p \in Workers :
    (pc[p] = "raised" /\ idx[p] >= 1 /\ started_empty[p]) =>
      \A a \in articles : newspaper_id[p] \notin NewspaperIds(a.id)

(***************************************************************************)
(* C11, amended.  When the fetch or the parse of scraper k fails: the      *)
(* failing call changes no table and run() leaves with the exception; no   *)
(* repository call about an article was made for scraper k in that run     *)
(* (the newspaper may hold what an earlier scraper with the same display   *)
(* title attached); no table changes until the next run starts; and what   *)
(* the scrapers before k persisted is all there: the system user, their    *)
(* newspapers, an article for each URL they yielded, attached to their     *)
(* newspaper.                                                              *)
(***************************************************************************)
FailureKeepsState ==
  /\ [][\A p \in Workers :
          /\ (pc[p] = "scrape" /\ pc'[p] = "raised") => tables' = tables
          /\ pc[p] \in {"raised", "logged"} => tables' = tables]_vars
  /\ [](\A p \in Workers :
          (pc[p] = "raised" /\ idx[p] >= 1) =>
            /\ last_call[p].scraper = idx[p]
            /\ last_call[p].op \in {"find_newspaper_by_title", "create_newspaper"}
            /\ fixed_feeds.on => ~fixed_feeds.content[idx[p]].ok
            /\ Cardinality(SystemUsers) = 1
            /\ \A j \in 1..(idx[p] - 1) :
                 /\ Cardinality(ScraperNewspapers(j)) = 1
                 /\ fixed_feeds.on =>
                      \A k \in DOMAIN fixed_feeds.content[j].items :
                        \E a \in articles :
                          /\ a.url = fixed_feeds.content[j].items[k].url
                          /\ ScraperNewspapers(j) \subseteq NewspaperIds(a.id))

\* the second scraper's fetch failed after the first one's articles were
\* created in this run, in another newspaper
FailureWitness ==
  /\ pc[1] = "raised"
  /\ idx[1] = 2
  /\ started_empty[1]
  /\ fixed_feeds.on
  /\ Len(fixed_feeds.content[1].items) = MaxLen
  /\ scrapers[1].newspaper_title # scrapers[2].newspaper_title
  /\ \E a \in articles : Creator(a.id) = 1 /\ NewspaperIds(a.id) = ScraperNewspapers(1)
  /\ \A a \in articles : newspaper_id[1] \notin NewspaperIds(a.id)

(***************************************************************************)
(* What a direct call gave back.                                           *)
(***************************************************************************)
\* the call of fn has been made and returned
HasReturned(fn) == input.fn = fn /\ output # None /\ ~output[1].raised

\* the articles a returned parse_feed or scrape call yielded
Yielded == output[1].value

(***************************************************************************)
(* C12.  Every article that parse_feed or NewsAPIScraper.scrape yields has *)
(* a non-empty url and a non-empty title, whatever the feed or payload is. *)
(***************************************************************************)
ArticlesComplete ==
  (HasReturned("parse_feed") \/ HasReturned("NewsAPIScraper.scrape")) =>
    \A i \in DOMAIN Yielded : Yielded[i].url # <<>> /\ Yielded[i].title # <<>>

(***************************************************************************)
(* C13.  The URL normalizer is idempotent: normalizing what it returned    *)
(* returns the same text.                                                  *)
(***************************************************************************)
NormalizerIdempotent ==
  HasReturned("_normalize_url") => _normalize_url(Yielded) = Yielded

(***************************************************************************)
(* C14.  An entry whose description is the URL of its link, with a slash   *)
(* added at its end or in another letter case, yields no summary.          *)
(***************************************************************************)
\* the one article of the feed that the parts of the input make
TheArticle == Yielded[1]

EchoParsed == HasReturned("parse_feed") /\ input.of = "echo"

SelfReferentialSummaryAbsent ==
  EchoParsed => Len(Yielded) = 1 /\ TheArticle.summary = None

\* the description differs from the link in the letter case of more than
\* the scheme and the host
RestInOtherCase ==
  input.kind = "upper_all" /\ Upper(input.parts.rest) # input.parts.rest

(***************************************************************************)
(* C14, amended.  The summary is absent when the description is the URL    *)
(* of the link as it is, with a slash added, in blanks or a paragraph, or  *)
(* with the scheme or the host in another letter case; a description that  *)
(* differs in the letter case of the path, query or fragment is kept.      *)
(***************************************************************************)
SelfReferentialSummary ==
  EchoParsed =>
    /\ Len(Yielded) = 1
    /\ TheArticle.url = UrlOf(input.parts)
    /\ TheArticle.summary =
         IF RestInOtherCase THEN Some(Upper(UrlOf(input.parts))) ELSE None

\* a description with a slash added and the host in upper case was dropped
SelfReferentialWitness ==
  /\ EchoParsed
  /\ input.kind = "upper_host_slash"
  /\ input.parts.rest # <<>>
  /\ TheArticle.summary = None

(***************************************************************************)
(* C15.  A description in which at least 3 of the markers stand on         *)
(* separate lines, or in which at least 3 lines start with a marker,       *)
(* yields no summary; a description with fewer than 3 lines that start     *)
(* with a marker and fewer than 3 distinct markers anywhere in it is kept  *)
(* as the summary.  The markers anywhere in it are counted as the detector *)
(* counts them, in the text in lower case.                                 *)
(***************************************************************************)
DescriptionParsed == HasReturned("parse_feed") /\ input.of = "description"

\* the lines of the description that start with a marker
MarkerLines == {i \in DOMAIN input.lines : input.lines[i].starts}

\* the markers that stand in the description as they are written
MarkersWritten == {input.lines[i].marker : i \in DOMAIN input.lines} \ {0}

\* the markers that stand in the description in any letter case
MarkersAnywhere == {input.lines[i].loose : i \in DOMAIN input.lines} \ {0}

\* the description as text: its lines, without the blanks around them
DescriptionText == Strip(Join(Texts(input.lines), Text("\n")))

MetadataBlockSuppression ==
  DescriptionParsed =>
    /\ Len(Yielded) = 1
    /\ (Cardinality(MarkersWritten) >= 3 \/ Cardinality(MarkerLines) >= 3) =>
         TheArticle.summary = None
    /\ (Cardinality(MarkerLines) < 3 /\ Cardinality(MarkersAnywhere) < 3) =>
         TheArticle.summary = Some(DescriptionText)

\* three markers on separate lines, one of them not at the start of its
\* line: the description was dropped
MetadataBlockWitness ==
  /\ DescriptionParsed
  /\ Cardinality(MarkersWritten) >= 3
  /\ Cardinality(MarkerLines) = 2
  /\ TheArticle.summary = None

(***************************************************************************)
(* C16.  For a well-formed feed parse_feed raises no error and yields one  *)
(* article for each item or entry that has a link, in the order of the     *)
(* document, and none for the others; an empty channel yields nothing.     *)
(***************************************************************************)
\* parse_feed was called on a well-formed feed of items or of entries
OrderFeedParsed ==
  /\ input.fn = "parse_feed"
  /\ output # None
  /\ input.of = "feed"
  /\ input.feed.well_formed
  /\ input.feed.items = <<>> \/ input.feed.entries = <<>>

\* the URL an element of the feed has, None without a link
LinkOf(feed, element) ==
  IF feed.items # <<>>
  THEN (CHOOSE link \in LinkTexts : link.text = element.link).url
  ELSE (CHOOSE linked \in AtomLinkLists : linked.links = element.links).url

\* the URLs of the elements of the feed that have a link, in document order
LinkedUrls(feed) ==
  LET elements == IF feed.items # <<>> THEN feed.items ELSE feed.entries
      linked   == SelectSeq(elements, LAMBDA element : LinkOf(feed, element) # None)
  IN  [i \in DOMAIN linked |-> LinkOf(feed, linked[i])[1]]

EntriesFilteredInOrder ==
  OrderFeedParsed =>
    /\ ~output[1].raised
    /\ [i \in DOMAIN Yielded |-> Yielded[i].url] = LinkedUrls(input.feed)

(***************************************************************************)
(* C17.  An Atom entry that carries a title, a link as the href of a link  *)
(* with rel alternate, and a description as its content or summary gives   *)
(* the same articles as the RSS item that carries the same values.         *)
(***************************************************************************)
\* an entry with one link, of rel alternate, that has an href
Carrier(entry) ==
  /\ Len(entry.links) = 1
  /\ entry.links[1].rel = Alternate
  /\ entry.links[1].href # None

\* parse_feed was called on an Atom feed of such entries
CarriersParsed ==
  /\ input.fn = "parse_feed"
  /\ output # None
  /\ FeedOf(input).well_formed
  /\ FeedOf(input).items = <<>>
  /\ \A i \in DOMAIN FeedOf(input).entries : Carrier(FeedOf(input).entries[i])

AtomRssEquivalent ==
  CarriersParsed =>
    output[1] = parse_feed(RssFeed([i \in DOMAIN FeedOf(input).entries |->
                                      RssOf(FeedOf(input).entries[i])]))

(***************************************************************************)
(* C18.  The title of an article is the trimmed raw title when that is not *)
(* empty and not URL-like; for an empty or URL-like raw title it is the    *)
(* title derived from the link (the words of the last path segment,        *)
(* capitalised, and the host without www. in parentheses) when one can be  *)
(* derived; otherwise it is the URL-like raw title, or "Untitled" for an   *)
(* empty one.                                                              *)
(***************************************************************************)
TitleParsed == HasReturned("parse_feed") /\ input.of = "title"

\* the title that the raw title and the link of the input resolve to
ResolvedTitle ==
  IF input.title.kind = "plain" THEN input.title.trimmed
  ELSE IF input.titled.derived # None THEN input.titled.derived[1]
  ELSE IF input.title.kind = "url" THEN input.title.trimmed
  ELSE Text("Untitled")

TitleResolution ==
  TitleParsed => Len(Yielded) = 1 /\ TheArticle.title = ResolvedTitle

\* a URL-like raw title was replaced by the title derived from the link
TitleResolutionWitness ==
  /\ TitleParsed
  /\ input.title.kind = "url"
  /\ input.titled.derived = Some(Text("My Article (a.io)"))
  /\ TheArticle.title = Text("My Article (a.io)")

(***************************************************************************)
(* C19.  Every accepted spelling of a magazine slug s gives the magazine   *)
(* scraper the feed URL https://flipboard.com/@s.rss and the title         *)
(* "Flipboard / @s", any subpath of s kept; the account scraper cuts the   *)
(* slug at its first slash, so its feed URL has no subpath.                *)
(***************************************************************************)
\* a Flipboard scraper was constructed from a spelling of a slug
SlugSpelled(fn) == input.fn = fn /\ input.of = "slug" /\ output # None

\* the feed of the handle on flipboard.com
FlipboardFeed(handle) == Text("https://flipboard.com/@") \o handle \o Text(".rss")

\* what follows flipboard.com/@ in a feed URL, without the final .rss
HandleOf(feed_url) == SubSeq(feed_url, Len(Text("https://flipboard.com/@")) + 1,
                             Len(feed_url) - Len(Text(".rss")))

IdentifierNormalization ==
  /\ SlugSpelled("FlipboardMagazineScraper") =>
       /\ ~output[1].raised
       /\ Yielded.feed_url = FlipboardFeed(input.named.slug)
       /\ Yielded.newspaper_title = Text("Flipboard / @") \o input.named.slug
  /\ SlugSpelled("FlipboardAccountScraper") =>
       /\ ~output[1].raised
       /\ Yielded.feed_url = FlipboardFeed(input.named.head)
       /\ "/" \notin Range(HandleOf(Yielded.feed_url))

\* an account scraper was constructed from the URL of a magazine with a
\* subpath and a query
IdentifierWitness ==
  /\ SlugSpelled("FlipboardAccountScraper")
  /\ input.spelling = Text("https://flipboard.com/@")
  /\ input.named.slug = Text("tech/awesome")
  /\ input.follower = Text("?from=share")
  /\ Yielded.feed_url = Text("https://flipboard.com/@tech.rss")

(***************************************************************************)
(* C20.  A Flipboard scraper constructed from an identifier that is blank  *)
(* or reduces to an empty slug raises and yields no scraper; a scheduler   *)
(* configured with such an entry raises while it builds its scrapers: it   *)
(* starts no run and makes no repository call.                             *)
(***************************************************************************)
\* a Flipboard scraper was constructed from an identifier without a slug
EmptyIdentifierGiven == input.fn \in FlipboardScrapers /\ input.of = "empty" /\ output # None

\* the entries the scheduler of this behaviour is configured with
Configured ==
  IF environ.FLIPBOARD_MAGAZINES = None THEN <<Entry("tech/tech", "slug")>>
  ELSE CHOOSE entries \in MagazineEntries : Listed(entries) = environ.FLIPBOARD_MAGAZINES

ConfiguredOf(kinds) == {i \in DOMAIN Configured : Configured[i].kind \in kinds}

\* worker p runs main()
Started(p) == pc[p] # "idle"

\* main() of worker p has not got past build_scrapers: no aggregator, no
\* run, no repository call
BeforeFirstRun(p) ==
  /\ pc[p] \in {"main", "crashed"}
  /\ Idle
  /\ input = NoInput

BlankOrEmptyFailsFast ==
  /\ EmptyIdentifierGiven => output[1] = Raised
  /\ \A p \in Workers :
       (Started(p) /\ ConfiguredOf({"blank", "empty"}) # {}) => BeforeFirstRun(p)

(***************************************************************************)
(* C20, amended.  A Flipboard scraper constructed from an identifier that  *)
(* is blank or reduces to an empty slug raises and yields no scraper.  A   *)
(* scheduler configured with an entry that is not blank and reduces to an  *)
(* empty slug raises while it builds its scrapers: it starts no run and    *)
(* makes no repository call.  A blank entry constructs no scraper and      *)
(* raises nothing: the scheduler runs with the scrapers of the other       *)
(* entries.                                                                *)
(***************************************************************************)
ConfigurationFailsFast ==
  /\ EmptyIdentifierGiven => output[1] = Raised
  /\ \A p \in Workers :
       /\ (Started(p) /\ ConfiguredOf({"empty"}) # {}) => BeforeFirstRun(p)
       /\ (Started(p) /\ ConfiguredOf({"empty"}) = {}) =>
            /\ pc[p] # "crashed"
            /\ pc[p] # "main" =>
                 Len(scrapers) = Cardinality(ConfiguredOf({"slug"}))
                                   + (IF environ.RSS_FEEDS = OneFeed THEN 1 ELSE 0)

\* the scheduler has ended on the second of its magazines, before any run
ConfigurationWitness ==
  \E p \in Workers :
    /\ pc[p] = "crashed"
    /\ environ.FLIPBOARD_MAGAZINES = Listed(<<Entry("tech", "slug"), Entry(".rss", "empty")>>)
    /\ BeforeFirstRun(p)

(***************************************************************************)
(* C21.  Constructing the News-API scraper with a blank API key (missing,  *)
(* empty or whitespace only) raises an error, so no News-API scraper       *)
(* exists whose stored API key is empty.                                   *)
(***************************************************************************)
NewsScraperMade == input.fn = "NewsAPIScraper" /\ output # None

ApiKeyRequired ==
  NewsScraperMade =>
    /\ Strip(OrEmpty(input.api_key)) = <<>> => output[1].raised
    /\ ~output[1].raised => output[1].value._api_key # <<>>

(***************************************************************************)
(* C22.  One scrape() of the News-API scraper sends at most two GET        *)
(* requests.  The second is sent exactly when a query filter is configured *)
(* and the first request returned no article; it carries no q parameter    *)
(* and the country, category and page size of the first; what it returns   *)
(* is the result of the scrape.  Without a query filter one request is     *)
(* sent, even when it returns no article.                                  *)
(***************************************************************************)
NewsScraped == input.fn = "NewsAPIScraper.scrape" /\ output # None

\* the first request was answered, with no article
FirstCameEmpty == input.with_query.ok /\ OrEmpty(input.with_query.articles) = <<>>

Retried == Len(requests) = 2

\* what the endpoint answers without q has one article, or none, or fails
BroadResult ==
  IF ~input.without_query.ok THEN output[1].raised
  ELSE /\ ~output[1].raised
       /\ Len(Yielded) = Len(OrEmpty(input.without_query.articles))
       /\ \A i \in DOMAIN Yielded :
            Some(Yielded[i].url) = input.without_query.articles[1][i].url

BoundedRetry ==
  NewsScraped =>
    /\ Len(requests) \in {1, 2}
    /\ requests[1].q = input.scraper._query
    /\ Retried <=> (input.scraper._query # None /\ FirstCameEmpty)
    /\ Retried =>
         /\ requests[2].q = None
         /\ requests[2].country = requests[1].country
         /\ requests[2].category = requests[1].category
         /\ requests[2].pageSize = requests[1].pageSize
         /\ requests[2].apiKey = requests[1].apiKey
         /\ BroadResult
    /\ input.scraper._query = None => Len(requests) = 1

\* a scraper with all three filters found nothing for its query, asked
\* again and yielded the article of the broader answer
BoundedRetryWitness ==
  /\ NewsScraped
  /\ input.scraper._query # None
  /\ input.scraper._country # None
  /\ input.with_query.articles = Some(<<>>)
  /\ Retried
  /\ requests[1].q # None
  /\ ~output[1].raised
  /\ Len(Yielded) = 1

\* a scraper without a query filter found nothing and asked once
SingleRequestWitness ==
  /\ NewsScraped
  /\ input.scraper._query = None
  /\ FirstCameEmpty
  /\ Len(requests) = 1
  /\ ~output[1].raised
  /\ Yielded = <<>>

(***************************************************************************)
(* C23.  build_scrapers returns one scraper for each non-empty RSS feed    *)
(* spec, one for each non-empty Flipboard magazine identifier and one for  *)
(* each non-empty Flipboard account identifier of the settings, and none   *)
(* for an empty entry: one feed, one magazine and one account give three   *)
(* scrapers.                                                               *)
(***************************************************************************)
\* the account entries the scheduler of this behaviour is configured with
ConfiguredAccounts ==
  IF environ.FLIPBOARD_ACCOUNTS = None THEN <<>>
  ELSE CHOOSE entries \in AccountEntries \cup {<<Entry("account1", "slug")>>} :
         Listed(entries) = environ.FLIPBOARD_ACCOUNTS

\* main() of worker p has built its scrapers
Built(p) == pc[p] \notin {"idle", "main", "crashed"}

SourcesOf(entries) == Cardinality({i \in DOMAIN entries : entries[i].kind = "slug"})

EverySourceCovered ==
  \A p \in Workers :
    Built(p) =>
      Len(scrapers) = (IF environ.RSS_FEEDS = OneFeed THEN 1 ELSE 0)
                        + SourcesOf(Configured) + SourcesOf(ConfiguredAccounts)

(***************************************************************************)
(* C24.  The link of an Atom entry is the href of a link child whose rel   *)
(* attribute is "alternate" whenever such a child with an href exists,     *)
(* wherever it stands among the links; only when no link has rel           *)
(* "alternate" is the first href used; an entry without an href on any of  *)
(* its links is skipped.                                                   *)
(***************************************************************************)
AtomFeedParsed ==
  /\ HasReturned("parse_feed")
  /\ input.of = "feed"
  /\ input.feed.well_formed
  /\ input.feed.items = <<>>

\* the links of an entry that have an href
WithHref(entry) ==
  SelectSeq(entry.links, LAMBDA element : element.href # None /\ element.href[1] # <<>>)

\* the urls of the articles a feed yields when each entry has the links of
\* its links with an href that Preferred picks, else the first href
UrlsBy(Preferred(_), entries) ==
  Concat([i \in DOMAIN entries |->
            IF WithHref(entries[i]) = <<>> THEN <<>>
            ELSE IF SelectSeq(WithHref(entries[i]), Preferred) # <<>>
            THEN <<Strip(SelectSeq(WithHref(entries[i]), Preferred)[1].href[1])>>
            ELSE <<Strip(WithHref(entries[i])[1].href[1])>>])

YieldedUrls == [i \in DOMAIN Yielded |-> Yielded[i].url]

RelIsAlternate(element) == element.rel = Alternate

AtomLinkByRelAttribute ==
  AtomFeedParsed => YieldedUrls = UrlsBy(RelIsAlternate, input.feed.entries)

(***************************************************************************)
(* C24, amended.  A link child counts as alternate when its rel attribute  *)
(* is "alternate" or when it has no rel attribute.  The link of an Atom    *)
(* entry is the href of the first alternate link child that has an href,   *)
(* wherever it stands among the links; only when no link child with an     *)
(* href is alternate is the first href used; an entry without an href on   *)
(* any of its links is skipped.                                            *)
(***************************************************************************)
RelIsAlternateOrMissing(element) == element.rel = Alternate \/ element.rel = None

AtomLinkSelection ==
  AtomFeedParsed => YieldedUrls = UrlsBy(RelIsAlternateOrMissing, input.feed.entries)

\* an entry whose alternate link comes second, after a self link, was given
\* the href of the alternate link, and an entry without rel beside it
AtomLinkWitness ==
  /\ AtomFeedParsed
  /\ Len(input.feed.entries) = 2
  /\ Len(input.feed.entries[1].links) = 2
  /\ input.feed.entries[1].links[1].rel = Some(Text("self"))
  /\ input.feed.entries[1].links[2].rel = Alternate
  /\ input.feed.entries[2].links = <<AtomLink(Some(Text("http://a.io/x")), None)>>
  /\ YieldedUrls = <<Text("http://a.io/y"), Text("http://a.io/x")>>

(***************************************************************************)
(* C25.  clean_html turns every <br> and <br/> of the raw text into a      *)
(* newline, and a </p><p> boundary into a newline, before it strips the    *)
(* remaining tags: "Line 1<br/>Line 2<br>Line 3" cleans to three lines     *)
(* with newlines between them.                                             *)
(***************************************************************************)
Cleaned == HasReturned("clean_html")

\* the lines of the raw text with a newline between every two of them
LinesOf(case) == Join([i \in 1..(Len(case.breaks) + 1) |-> LineOf(i)], <<"\n">>)

LineBreaksConverted == Cleaned => Yielded = LinesOf(input)

(***************************************************************************)
(* C26.  Each item the News-API returns with a non-blank url yields one    *)
(* article, an item with a missing or blank url none; a blank title        *)
(* becomes "Untitled"; the summary is the trimmed description when the     *)
(* description is not blank, otherwise the trimmed content when the        *)
(* content is not blank, and absent only when both are blank, also for a   *)
(* description of blanks only beside a content that is not blank.          *)
(***************************************************************************)
\* the scrape has returned the mapping of the first answer
ItemsMapped ==
  /\ HasReturned("NewsAPIScraper.scrape")
  /\ OrEmpty(input.with_query.articles) # <<>>

Blank(value) == Strip(OrEmpty(value)) = <<>>

MappedSummary(item) ==
  IF ~Blank(item.description) THEN Some(Strip(item.description[1]))
  ELSE IF ~Blank(item.content) THEN Some(Strip(item.content[1]))
  ELSE None

MappedItem(item) ==
  IF Blank(item.url) THEN <<>>
  ELSE <<ScrapedArticle(IF Blank(item.title) THEN Text("Untitled") ELSE Strip(item.title[1]),
                        Strip(item.url[1]), MappedSummary(item))>>

NewsItemMapping ==
  ItemsMapped =>
    Yielded = Concat([i \in DOMAIN input.with_query.articles[1] |->
                        MappedItem(input.with_query.articles[1][i])])

(***************************************************************************)
(* C28.  For each scraper the run looks up or creates the scraper's        *)
(* newspaper before it calls scrape(): when the fetch or the parse of a    *)
(* scraper fails on its first run, its newspaper has been created, is      *)
(* empty, and is still persisted after the run has left with the error.    *)
(***************************************************************************)
\* worker p is about to call scrape() of its scraper, or has left run()
\* with the error of that scrape()
AtFetch(p) == pc[p] = "scrape"

FetchFailedIn(p) == pc[p] \in {"raised", "logged"} /\ idx[p] >= 1

\* the newspaper of the scraper at hand: the row with the id the run holds
NewspaperAtHand(p) ==
  {n \in newspapers : /\ n.id = newspaper_id[p]
                      /\ n.title = scrapers[idx[p]].newspaper_title
                      /\ n.owner_id = owner_id[p]}

CreatedForFetch(p) ==
  /\ last_call[p] = Call("create_newspaper", idx[p], 0)
  /\ newspaper_id[p] \in made_newspapers

NewspaperBeforeFetch ==
  \A p \in Workers :
    /\ (AtFetch(p) \/ FetchFailedIn(p)) =>
         /\ Cardinality(NewspaperAtHand(p)) = 1
         /\ last_call[p].scraper = idx[p]
         /\ last_call[p].op \in {"find_newspaper_by_title", "create_newspaper"}
    /\ ((AtFetch(p) \/ FetchFailedIn(p)) /\ last_call[p].op = "create_newspaper") =>
         /\ CreatedForFetch(p)
         /\ \A a \in articles : newspaper_id[p] \notin NewspaperIds(a.id)

\* the first run over an empty store has left with the error of its first
\* scraper's fetch, and the newspaper made for that scraper is there, empty
NewspaperBeforeFetchWitness ==
  /\ pc[1] = "logged"
  /\ idx[1] = 1
  /\ started_empty[1]
  /\ CreatedForFetch(1)
  /\ articles = {}
  /\ \E n \in newspapers : n.id = newspaper_id[1] /\ n.title = scrapers[1].newspaper_title

(***************************************************************************)
(* C29.  In every step of every run the users, the newspapers, the         *)
(* articles and the article-to-newspaper pairs only grow: a run deletes    *)
(* and detaches nothing, and an article whose URL no feed lists any more   *)
(* stays persisted and attached.                                           *)
(***************************************************************************)
RunOnlyAdds ==
  [][/\ users \subseteq users'
     /\ newspapers \subseteq newspapers'
     /\ articles \subseteq articles'
     /\ newspaper_articles \subseteq newspaper_articles']_vars

\* the second of two returned runs, whose only scraper yielded nothing,
\* has left the articles of the run before it in the scraper's newspaper
RunOnlyAddsWitness ==
  /\ pc[1] = "returned"
  /\ completed[1] = 2
  /\ ~fixed_feeds.on
  /\ Len(scrapers) = 1
  /\ last_call[1] = Call("find_newspaper_by_title", 1, 0)
  /\ Cardinality(made_articles) = MaxLen
  /\ \A q \in made_articles :
       \E a \in articles : a.id = q[1] /\ NewspaperIds(a.id) = ScraperNewspapers(1)

(***************************************************************************)
(* C27.  When the URL of a scraped article is that of an article that      *)
(* exists, the run adds the pair of the article and the current newspaper  *)
(* and changes nothing else: title, content, url and owner of the article  *)
(* stay as they are, also when the scraped title or summary differs.  The  *)
(* title and content stored for a URL are those of its first occurrence in *)
(* processing order.                                                       *)
(***************************************************************************)
\* the scrapers a run gets through: those before the first whose fetch fails
Reached ==
  {i \in DOMAIN scrapers : \A j \in 1..(i - 1) : fixed_feeds.content[j].ok}

\* what the runs process, in processing order
Processed ==
  Concat([i \in DOMAIN scrapers |->
            IF i \in Reached THEN fixed_feeds.content[i].items ELSE <<>>])

FirstOccurrence(url) ==
  Processed[SetMin({k \in DOMAIN Processed : Processed[k].url = url})]

\* the scraped article worker p has at hand
AtHand(p) == Head(remaining[p])

FirstWriterWins ==
  /\ [][\A p \in Workers :
          pc[p] = "assign_article" =>
            /\ articles' = articles
            /\ newspaper_articles' =
                 newspaper_articles \cup {<<newspaper_id[p], existing[p]>>}
            /\ users' = users
            /\ newspapers' = newspapers]_vars
  /\ [](\A a \in articles :
          Creator(a.id) # 0 =>
            /\ \E k \in DOMAIN Processed : Processed[k].url = a.url
            /\ a.title = FirstOccurrence(a.url).title
            /\ a.content = FirstOccurrence(a.url).summary
            /\ SystemOwned(a))

\* the run has attached the article it created for the story of its first
\* scraper to the newspaper of its second scraper, which tells the story
\* under another title and without a summary: the article is as it was made
FirstWriterWitness ==
  /\ pc[1] = "returned"
  /\ Len(scrapers) = 2
  /\ scrapers[1].newspaper_title # scrapers[2].newspaper_title
  /\ fixed_feeds.content[1].items = <<ScrapedArticle("Story", UrlStory, Some("text"))>>
  /\ fixed_feeds.content[2].items = <<ScrapedArticle("Story retold", UrlStory, None)>>
  /\ last_call[1] = Call("assign_article_to_newspaper", 2, 1)
  /\ \E a \in articles :
       /\ Creator(a.id) = 1
       /\ a.title = "Story"
       /\ a.content = Some("text")
       /\ NewspaperIds(a.id) = ScraperNewspapers(1) \cup ScraperNewspapers(2)

(***************************************************************************)
(* C30.  When between two runs another actor detaches an article from a    *)
(* scraper's newspaper, or deletes it, while the scraper's feed still      *)
(* lists its URL, the next run that returns attaches the article to that   *)
(* newspaper again, or makes an article with that URL anew: whenever a run *)
(* returns, each URL in a scraper's output is attached to that scraper's   *)
(* newspaper.                                                              *)
(***************************************************************************)
\* each URL a scraper yields is carried by an article in the scraper's
\* newspaper
EveryUrlAttached ==
  \A i \in DOMAIN scrapers :
    /\ Cardinality(ScraperNewspapers(i)) = 1
    /\ \A k \in DOMAIN fixed_feeds.content[i].items :
         \E a \in articles :
           /\ a.url = fixed_feeds.content[i].items[k].url
           /\ ScraperNewspapers(i) \subseteq NewspaperIds(a.id)

\* worker p's run returns in this step
Returns(p) == pc[p] # "returned" /\ pc'[p] = "returned"

Rereconciliation ==
  [][\A p \in Workers : Returns(p) => EveryUrlAttached']_vars

\* another actor has taken an article out of the newspaper of the first
\* scraper, into which a run had put it
DetachedAfterRuns ==
  /\ external # <<>>
  /\ external[1].op = "detach"
  /\ external[1].newspaper_id \in ScraperNewspapers(1)

\* the run after that has returned: the article is in the newspaper again
ReattachedWitness ==
  /\ pc[1] = "returned"
  /\ completed[1] = 2
  /\ DetachedAfterRuns
  /\ last_call[1].op = "assign_article_to_newspaper"
  /\ \E a \in articles :
       /\ a.id = external[1].article_id
       /\ a.url = fixed_feeds.content[1].items[1].url
       /\ external[1].newspaper_id \in NewspaperIds(a.id)

\* another actor has deleted the article of the story and the run after
\* that has made it anew, in the newspaper of its scraper
RecreatedWitness ==
  /\ pc[1] = "returned"
  /\ external # <<>>
  /\ external[1].op = "delete"
  /\ \E q \in made_articles : q[1] = external[1].article_id
  /\ \E a \in articles :
       /\ a.id > external[1].article_id
       /\ Creator(a.id) = 1
       /\ a.url = UrlStory
       /\ NewspaperIds(a.id) = ScraperNewspapers(1)

====
